---------------------------- MODULE Spec2Model ----------------------------
(***************************************************************************)
(* A model of the core of the lab-psu firmware: the task scheduler         *)
(* (core/scheduler.c), the process framework (core/process.c) and the ADC  *)
(* engine (core/adc.c).  Every subsystem has its own specification         *)
(* (SchedSpec, ProcSpec, AdcSpec) over the variables it owns (AdcSpec      *)
(* includes the event ring the ADC engine posts to); the variables of the  *)
(* other subsystems stay at their initial values.                          *)
(*                                                                         *)
(* The target is an AVR: int is 16 bits wide, so uint8_t operands promote  *)
(* to a signed 16-bit int and uint16_t operands to unsigned int.  Widths   *)
(* are scaled down for model checking: the hardware counter counts modulo  *)
(* TimerMod (256 on the target) and the logical tick modulo TickMod        *)
(* (65536 on the target), TimerMod dividing TickMod.                       *)
(***************************************************************************)
EXTENDS Integers, Sequences, FiniteSets, TLC

\* ------------------------------------------------------------------------
\* Bounds of the model
\* ------------------------------------------------------------------------

\* Number of task slots (SCHED_TASKS_MAX, 8 by default on the target)
SCHED_TASKS_MAX == 2

\* The hardware counter and the compare register count modulo TimerMod
TimerMod == 3

\* TickMod = TimerMod * TickFactor is the modulus of the 16-bit tick values
TickFactor == 2

\* Largest delay passed to sched_schedule
MaxTicks == 4

\* Capacity of the event ring (PROCESS_CONF_EVENT_QUEUE_SIZE, 16 on the
\* target)
PROCESS_CONF_EVENT_QUEUE_SIZE == 2

\* Number of processes
NumProcs == 2

\* Largest data value posted with an event
MaxData == 0

\* Number of ADC measurement structures
NumAdcs == 2

\* Number of samples the conversion-complete interrupt takes in a run
MaxConversions == 3

\* The raw sample every conversion delivers
RawSample == 1

\* Number of adc_disable calls in a run
MaxDisables == 1

\* Largest value the uninitialised field oversamples_remaining starts with
MaxUninit == 1

\* The period counter of queue_next_next_adc counts modulo PeriodMod (256 on
\* the target)
PeriodMod == 2

\* Number of SPI master transfer structures
NumTrx == 2

\* MAX_RX_DELAY, the number of polls a framed transfer starts with (at most
\* 15, the low nibble of the flags byte)
MAX_RX_DELAY == 1

\* SPIS_RX_BUF_SIZE, the size of the receive buffer of the SPI slave (32 on
\* the target)
SPIS_RX_BUF_SIZE == 1

\* Number of transfers spim_trx_queue accepts in a run
MaxQueued == 2

\* Number of transfers spim_trx_queue accepts in a run that is about the
\* polls for a response
MaxPolled == 1

\* The hardware counter of the clock counts modulo ClockTimerMod and the
\* byte clock_upper modulo ClockUpperMod (both 256 on the target)
ClockTimerMod == 3
ClockUpperMod == 3

TickMod == TimerMod * TickFactor

\* TMR_REG_MAX(TMR, TMR_CHANNEL): the largest value of the compare register
TMR_REG_MAX == TimerMod - 1

Slots == 1 .. SCHED_TASKS_MAX

\* The null pointer
NULL == 0

\* uint16_t arithmetic is modulo Word16
Word16 == 2 ^ 16

VARIABLES
  \* ---- scheduler.c ----
  next,                 \* tasks[i].next
  tick,                 \* tasks[i].tick
  free_head,
  waiting_head,
  ready_head,
  ready_tail,
  next_interrupt_tick,
  cntr,                 \* TMR_REG(TMR, cntr), the hardware counter
  ocr,                  \* TMR_REG(TMR, TMR_CHANNEL), the compare register
  pending,              \* compare-match interrupt flag
  execPc,               \* position of the foreground inside sched_exec
  first,                \* sched_exec's local variable
  ret,                  \* status returned by the last completed call
  rem,                  \* history: timer ticks left until each slot's deadline
  req,                  \* history: the delay each slot was accepted with last
  ideal,                \* history: accepted delayed tasks in deadline order
  \* ---- process.c ----
  process_list_head,
  pnext,                \* p->next of every process
  event_queue,          \* the ring, indexed from 0
  event_queue_count,
  event_queue_first,
  fgPc,                 \* position of the foreground inside process.c
  callP,                \* argument p of the call in progress
  callE,                \* event passed to the process_post_event in progress
  idx,                  \* process_post_event's local i
  proc,                 \* loop variable of process_list_contains
  e,                    \* process_execute's local copy of the event
  pret,                 \* status returned by the last completed call
  shadow,               \* history: the accepted events, oldest first
  \* ---- adc.c ----
  adcs,                 \* head of the list of enabled measurements
  anext,                \* adc->next
  enabled,              \* FLAG_ADC_ENABLED of adc->flags_channel
  channel,              \* the channel bits of adc->flags_channel
  oversamples,          \* adc->oversamples
  skip,                 \* adc->skip
  value,                \* adc->value
  next_value,           \* adc->next_value
  oversamples_remaining,
  owner,                \* adc->process
  next_next_adc,
  next_adc_to_consider,
  period,               \* the static period of queue_next_next_adc
  current_adc,          \* static of the interrupt routine
  next_adc,             \* static of the interrupt routine
  mux,                  \* the channel selected with ADC_SET_CHANNEL
  didr,                 \* the channels whose digital input is disabled
  adcPt,                \* where the protothread of adc_process waits
  hadc,                 \* argument adc of handle_completed_conversion
  qadc,                 \* local variable adc of queue_next_next_adc
  nconv,                \* history: number of samples taken
  handled,              \* history: conversions handled, per measurement
  completed,            \* history: completions posted, per measurement
  ndisable,             \* history: number of adc_disable calls
  \* ---- spi_master.c ----
  trx_queue_head,
  trx_queue_tail,
  trx_flags,            \* trx->flags, flags_rx_delay_remaining of a framed one
  trx_next,             \* trx->next
  trx_p,                \* trx->p, the process that is notified
  trx_ss,               \* the level of the slave select pin of the transfer
  tx_type,              \* trx->tx_type
  tx_size,              \* trx->tx_size
  tx_buf,               \* trx->tx_buf
  rx_type,              \* trx->rx_type
  rx_size,              \* trx->rx_size
  rx_buf,               \* trx->rx_buf
  spimPt,               \* where the protothread of spim_trx_process waits
  spim_events,          \* events in the ring for spim_trx_process
  trx_timer,            \* TRUE when trx_timer has expired
  tx_counter,
  rx_counter,
  crc,                  \* static crc of spim_trx_process
  rx_crc,
  spdr,                 \* the byte the master shifted in last
  qret,                 \* status returned by the last spim_trx_queue
  started,              \* history: times a transfer was taken from the head
  terminated,           \* history: terminal events of a transfer
  last_event,           \* history: the last terminal event of a transfer
  stray,                \* history: exchanges and terminations made with no
                        \*   transfer in transmission at the head
  polls,                \* history: dummy bytes sent while waiting for the
                        \*   response of the transfer in progress
  wire,                 \* history: bytes sent in the transfer in progress
  order,                \* history: transfers accepted and not yet started
  \* ---- spi_slave.c ----
  transfer_in_progress,
  status,               \* trx.status
  s_rx_type,            \* trx.rx_type
  s_rx_size,            \* trx.rx_size
  s_rx_buf,             \* trx.rx_buf
  s_crc,                \* trx.crc
  rx_received,          \* trx.rx_received
  s_tx_buf,             \* the bytes trx.tx_buf points to
  tx_remaining,         \* trx.tx_remaining
  error_code_remaining, \* trx.error_code_remaining
  s_spdr,               \* the byte the slave shifts out next
  s_data,               \* the byte the slave shifted in last
  spif,                 \* TRUE when a transfer-complete interrupt is pending
  ss_pin,               \* TRUE when the slave select pin is high
  ss_changed,           \* TRUE when a pin-change interrupt is pending
  frame,                \* history: bytes shifted in since the state Ready
  s_events,             \* history: events posted since the frame began
  resp,                 \* history: the answer of the callback to the frame
  overrun,              \* history: TRUE once rx_buf was written past its end
  \* ---- clock.c ----
  clock_upper,
  clk_cntr,             \* TMR_GET_CNTR(CLOCK_TMR), the hardware counter
  clk_ovf,              \* TRUE when an overflow interrupt is pending
  clk_ie,               \* TRUE when interrupts are enabled
  clkPc,                \* position of the caller inside clock_get_time
  clk_hi,               \* the value read from clock_upper
  clk_lo,               \* the value read from the hardware counter
  clk_ticks,            \* history: timer ticks since clock_init
  clk_at,               \* history: clk_ticks when the counter was read last
  clk_reads,            \* history: number of reads that have returned
  clk_now,              \* history: what the latest read returned
  clk_prev,             \* history: what the read before it returned
  clk_elapsed           \* history: ticks between these two reads

schedVars == <<next, tick, free_head, waiting_head, ready_head, ready_tail,
               next_interrupt_tick, cntr, ocr, pending, execPc, first, ret,
               rem, req, ideal>>

procVars == <<process_list_head, pnext, event_queue, event_queue_count,
              event_queue_first, fgPc, callP, callE, idx, proc, e, pret, shadow>>

adcVars == <<adcs, anext, enabled, channel, oversamples, skip, value,
             next_value, oversamples_remaining, owner, next_next_adc,
             next_adc_to_consider, period, current_adc, next_adc, mux, didr,
             adcPt, hadc, qadc, nconv, handled, completed, ndisable>>

spimVars == <<trx_queue_head, trx_queue_tail, trx_flags, trx_next, trx_p,
              trx_ss, tx_type, tx_size, tx_buf, rx_type, rx_size, rx_buf,
              spimPt, spim_events, trx_timer, tx_counter, rx_counter, crc,
              rx_crc, spdr, qret, started, terminated, last_event, stray,
              polls, wire, order>>

spisVars == <<transfer_in_progress, status, s_rx_type, s_rx_size, s_rx_buf,
              s_crc, rx_received, s_tx_buf, tx_remaining,
              error_code_remaining, s_spdr, s_data, spif, ss_pin, ss_changed,
              frame, s_events, resp, overrun>>

clockVars == <<clock_upper, clk_cntr, clk_ovf, clk_ie, clkPc, clk_hi, clk_lo,
               clk_ticks, clk_at, clk_reads, clk_now, clk_prev, clk_elapsed>>

vars == <<schedVars, procVars, adcVars, spimVars, spisVars, clockVars>>

\* What the steps of one subsystem leave alone
outsideSched == <<procVars, adcVars, spimVars, spisVars, clockVars>>
outsideProc == <<schedVars, adcVars, spimVars, spisVars, clockVars>>
outsideAdc == <<schedVars, spimVars, spisVars, clockVars>>
outsideSpi == <<schedVars, procVars, adcVars, clockVars>>
outsideClock == <<schedVars, procVars, adcVars, spimVars, spisVars>>

\* ------------------------------------------------------------------------
\* Linked lists
\* ------------------------------------------------------------------------

RECURSIVE Walk(_, _, _)
\* The nodes reached from h by following the links nx, at most fuel of them
Walk(nx, h, fuel) ==
  IF h = NULL \/ fuel = 0 THEN <<>>
  ELSE <<h>> \o Walk(nx, nx[h], fuel - 1)

\* A list is walked one node further than there are slots, so that a cycle
\* shows as a list that is too long
ListFrom(nx, h) == Walk(nx, h, SCHED_TASKS_MAX + 1)

FreeList    == ListFrom(next, free_head)
WaitingList == ListFrom(next, waiting_head)
ReadyList   == ListFrom(next, ready_head)

Range(s) == {s[i] : i \in 1 .. Len(s)}

\* ------------------------------------------------------------------------
\* scheduler.c
\* ------------------------------------------------------------------------

\* sched_init
SchedInit ==
  /\ next = [i \in Slots |-> IF i < SCHED_TASKS_MAX THEN i + 1 ELSE NULL]
  /\ tick = [i \in Slots |-> 0]
  /\ free_head = 1
  /\ waiting_head = NULL
  /\ ready_head = NULL
  /\ ready_tail = NULL
  /\ cntr = 0
  /\ ocr = TMR_REG_MAX
  /\ next_interrupt_tick = TMR_REG_MAX
  /\ pending = FALSE
  /\ execPc = "idle"
  /\ first = NULL
  /\ ret = "none"
  /\ rem = [i \in Slots |-> 0]
  /\ req = [i \in Slots |-> 0]
  /\ ideal = <<>>

\* ready_queue_put without its last statement, node->next = 0
ReadyQueuePutKeepsLink(nx, head, tail, node) ==
  IF tail = NULL
    THEN [nx |-> nx, head |-> node, tail |-> node]
    ELSE [nx |-> [nx EXCEPT ![tail] = node], head |-> head, tail |-> node]

\* ready_queue_put(node) applied to the links nx and the queue <<head, tail>>:
\* the new links, head and tail
ReadyQueuePut(nx, head, tail, node) ==
  IF tail = NULL
    THEN [nx |-> [nx EXCEPT ![node] = NULL], head |-> node, tail |-> node]
    ELSE [nx |-> [nx EXCEPT ![tail] = node, ![node] = NULL],
          head |-> head, tail |-> node]

\* A test that refuses the last free slot as well
NoFreeSlotOrLast == free_head = NULL \/ next[free_head] = NULL

\* if (free_head == 0) in sched_schedule
NoFreeSlot == free_head = NULL

RECURSIVE InsertAfterIn(_, _, _, _, _)
\* The loop of sched_schedule that looks for the insertion point, with tk
\* the tick fields of the nodes: the last node of the waiting list, from
\* node on, whose distance to current_tick is at most ticks (prev when there
\* is none).  The subtraction is done in uint16_t.
InsertAfterIn(tk, prev, node, current_tick, ticks) ==
  IF node # NULL /\ ((tk[node] - current_tick) % TickMod) <= ticks
    THEN InsertAfterIn(tk, node, next[node], current_tick, ticks)
    ELSE prev

\* The loop of sched_schedule on the tick fields as they are
InsertAfter(prev, node, current_tick, ticks) ==
  InsertAfterIn(tick, prev, node, current_tick, ticks)

\* if (ticks < TMR_REG(TMR,TMR_CHANNEL) - current_timer_value): both operands
\* of the subtraction are uint8_t and promote to int, the difference may be
\* negative and is converted to unsigned int for the comparison with ticks
\* (a ticks_t, unsigned and 16 bits wide like the tick field it is added to)
MustReprogram(ticks, current_timer_value) ==
  ticks < ((ocr - current_timer_value) % TickMod)

\* The position of slot s in the deadline order of the accepted tasks: after
\* every task whose deadline is not later
RECURSIVE IdealInsert(_, _, _)
IdealInsert(seq, s, ticks) ==
  IF seq # <<>> /\ rem[Head(seq)] <= ticks
    THEN <<Head(seq)>> \o IdealInsert(Tail(seq), s, ticks)
    ELSE <<s>> \o seq

\* sched_schedule(ticks, task, data): the whole body is one critical section
sched_schedule(ticks) ==
  /\ ~pending
  /\ execPc \in {"idle", "running"}
  /\ IF NoFreeSlot
       THEN /\ ret' = "SCHED_QUEUE_FULL"
            /\ UNCHANGED <<next, tick, free_head, waiting_head, ready_head,
                           ready_tail, next_interrupt_tick, cntr, ocr,
                           pending, execPc, first, rem, req, ideal>>
       ELSE LET new_node == free_head
                free1 == next[free_head]
            IN
            /\ free_head' = free1
            /\ ret' = "SCHED_OK"
            /\ IF ticks = 0
                 THEN LET q == ReadyQueuePut(next, ready_head, ready_tail,
                                             new_node)
                      IN /\ next' = q.nx
                         /\ ready_head' = q.head
                         /\ ready_tail' = q.tail
                         /\ req' = [req EXCEPT ![new_node] = 0]
                         /\ UNCHANGED <<tick, waiting_head,
                                        next_interrupt_tick, ocr, rem, ideal>>
                 ELSE LET current_timer_value == cntr
                          ticks_until_next_interrupt ==
                            (ocr - current_timer_value) % TimerMod
                          current_tick ==
                            (next_interrupt_tick - ticks_until_next_interrupt)
                              % TickMod
                          prev == InsertAfter(NULL, waiting_head,
                                              current_tick, ticks)
                          new_tick == (current_tick + ticks) % TickMod
                      IN /\ tick' = [tick EXCEPT ![new_node] = new_tick]
                         /\ IF prev = NULL
                              THEN /\ next' = [next EXCEPT
                                                 ![new_node] = waiting_head]
                                   /\ waiting_head' = new_node
                              ELSE /\ next' = [next EXCEPT
                                                 ![new_node] = next[prev],
                                                 ![prev] = new_node]
                                   /\ UNCHANGED waiting_head
                         /\ IF MustReprogram(ticks, current_timer_value)
                              THEN /\ ocr' = (current_timer_value + ticks)
                                               % TimerMod
                                   /\ next_interrupt_tick' = new_tick
                              ELSE UNCHANGED <<ocr, next_interrupt_tick>>
                         /\ rem' = [rem EXCEPT ![new_node] = ticks]
                         /\ req' = [req EXCEPT ![new_node] = ticks]
                         /\ ideal' = IdealInsert(ideal, new_node, ticks)
                         /\ UNCHANGED <<ready_head, ready_tail>>
            /\ UNCHANGED <<cntr, pending, execPc, first>>
  /\ UNCHANGED outsideSched

\* One tick of the hardware timer; the compare-match flag is set when the
\* counter reaches the compare register.  The interrupt is served before the
\* next tick and before the foreground goes on.
TimerTick ==
  /\ ~pending
  /\ cntr' = (cntr + 1) % TimerMod
  /\ pending' = (cntr' = ocr)
  /\ rem' = [i \in Slots |-> IF rem[i] > 0 THEN rem[i] - 1 ELSE 0]
  /\ ret' = "none"
  /\ UNCHANGED <<next, tick, free_head, waiting_head, ready_head, ready_tail,
                 next_interrupt_tick, ocr, execPc, first, req, ideal>>
  /\ UNCHANGED outsideSched

\* (*node)->tick <= current_tick in the interrupt routine: a comparison of
\* two uint16_t values
IsDue(node_tick, current_tick) == node_tick <= current_tick

RECURSIVE Release(_, _, _, _, _, _)
\* The loop of the interrupt routine: moves the due nodes at the head of the
\* waiting list to the back of the ready queue.  The tick field of a node
\* that leaves the waiting list is not read again before sched_schedule
\* writes it; the model resets it (tk) so that states which differ only in
\* such dead values coincide.
Release(nx, tk, whead, rhead, rtail, current_tick) ==
  IF whead # NULL /\ IsDue(tk[whead], current_tick)
    THEN LET q == ReadyQueuePut(nx, rhead, rtail, whead)
         IN Release(q.nx, [tk EXCEPT ![whead] = 0], nx[whead], q.head, q.tail,
                    current_tick)
    ELSE [nx |-> nx, tk |-> tk, whead |-> whead, rhead |-> rhead,
          rtail |-> rtail]

Min(a, b) == IF a < b THEN a ELSE b

\* INTERRUPT(TMR_INTERRUPT_VECT(TMR,TMR_CHANNEL))
TMR_INTERRUPT ==
  /\ pending
  /\ LET current_tick == next_interrupt_tick
         r == Release(next, tick, waiting_head, ready_head, ready_tail,
                      current_tick)
         ticks_until_next_isr ==
           IF r.whead = NULL
             THEN TMR_REG_MAX
             ELSE Min((tick[r.whead] - current_tick) % TickMod, TMR_REG_MAX)
     IN /\ next' = r.nx
        /\ tick' = r.tk
        /\ waiting_head' = r.whead
        /\ ready_head' = r.rhead
        /\ ready_tail' = r.rtail
        /\ ocr' = (cntr + ticks_until_next_isr) % TimerMod
        /\ next_interrupt_tick' =
             (next_interrupt_tick + ticks_until_next_isr) % TickMod
  /\ pending' = FALSE
  /\ ret' = "none"
  /\ UNCHANGED <<free_head, cntr, execPc, first, rem, req, ideal>>
  /\ UNCHANGED outsideSched

\* sched_exec, first critical section: first = ready_head
sched_exec_load ==
  /\ ~pending
  /\ execPc = "idle"
  /\ IF ready_head # NULL
       THEN /\ first' = ready_head
            /\ execPc' = "loaded"
            /\ ret' = "none"
       ELSE /\ ret' = "SCHED_IDLE"
            /\ UNCHANGED <<first, execPc>>
  /\ UNCHANGED <<next, tick, free_head, waiting_head, ready_head, ready_tail,
                 next_interrupt_tick, cntr, ocr, pending, rem, req, ideal>>
  /\ UNCHANGED outsideSched

\* sched_exec, second critical section: remove first from the ready queue;
\* the task's callback runs from here on
sched_exec_pop ==
  /\ ~pending
  /\ execPc = "loaded"
  /\ ready_head' = next[first]
  /\ ready_tail' = IF next[first] = NULL THEN NULL ELSE ready_tail
  /\ execPc' = "running"
  /\ ideal' = SelectSeq(ideal, LAMBDA s : s # first)
  /\ ret' = "none"
  /\ UNCHANGED <<next, tick, free_head, waiting_head, next_interrupt_tick,
                 cntr, ocr, pending, first, rem, req>>
  /\ UNCHANGED outsideSched

\* sched_exec, third critical section, without the two statements that add
\* first back to the free list
sched_exec_free_drops_slot ==
  /\ ~pending
  /\ execPc = "running"
  /\ execPc' = "idle"
  /\ first' = NULL
  /\ rem' = [rem EXCEPT ![first] = 0]
  /\ ret' = "SCHED_TASK_EXECUTED"
  /\ UNCHANGED <<next, free_head, tick, waiting_head, ready_head, ready_tail,
                 next_interrupt_tick, cntr, ocr, pending, req, ideal>>
  /\ UNCHANGED outsideSched

\* sched_exec, third critical section, after the callback has returned: add
\* first back to the free list
sched_exec_free ==
  /\ ~pending
  /\ execPc = "running"
  /\ next' = [next EXCEPT ![first] = free_head]
  /\ free_head' = first
  /\ execPc' = "idle"
  /\ first' = NULL
  /\ rem' = [rem EXCEPT ![first] = 0]
  /\ ret' = "SCHED_TASK_EXECUTED"
  /\ UNCHANGED <<tick, waiting_head, ready_head, ready_tail,
                 next_interrupt_tick, cntr, ocr, pending, req, ideal>>
  /\ UNCHANGED outsideSched

SchedNext ==
  \/ \E ticks \in 0 .. MaxTicks : sched_schedule(ticks)
  \/ TimerTick
  \/ TMR_INTERRUPT
  \/ sched_exec_load
  \/ sched_exec_pop
  \/ sched_exec_free

\* ------------------------------------------------------------------------
\* process.c
\* ------------------------------------------------------------------------

Procs == 1 .. NumProcs

QueueIndexes == 0 .. PROCESS_CONF_EVENT_QUEUE_SIZE - 1

\* The value of a ring slot that holds no event
NoEvent == [p |-> NULL, ev |-> "none", data |-> 0]

\* process_init; the process structures and the ring are zero-initialised
\* static data
ProcInit ==
  /\ process_list_head = NULL
  /\ pnext = [p \in Procs |-> NULL]
  /\ event_queue = [i \in QueueIndexes |-> NoEvent]
  /\ event_queue_count = 0
  /\ event_queue_first = 0
  /\ fgPc = "idle"
  /\ callP = NULL
  /\ callE = NoEvent
  /\ idx = 0
  /\ proc = NULL
  /\ e = NoEvent
  /\ pret = "none"
  /\ shadow = <<>>

\* A test for a full ring that is off by one
QueueIsFullLate(count) == count > PROCESS_CONF_EVENT_QUEUE_SIZE

\* if (event_queue_count == PROCESS_CONF_EVENT_QUEUE_SIZE)
QueueIsFull(count) == count = PROCESS_CONF_EVENT_QUEUE_SIZE

\* i = (event_queue_first + event_queue_count) % PROCESS_CONF_EVENT_QUEUE_SIZE
PostIndex(qfirst, count) == (qfirst + count) % PROCESS_CONF_EVENT_QUEUE_SIZE

\* A head index that process_execute does not advance
NextFirstStuck(qfirst) == qfirst

\* event_queue_first = (event_queue_first + 1) % PROCESS_CONF_EVENT_QUEUE_SIZE
NextFirst(qfirst) == (qfirst + 1) % PROCESS_CONF_EVENT_QUEUE_SIZE

Event(p, ev, data) == [p |-> p, ev |-> ev, data |-> data]

\* process_post_event called from the foreground, its critical section: the
\* check for a full ring and the reservation of slot i
process_post_event_reserve(p, ev, data) ==
  /\ fgPc = "idle"
  /\ IF QueueIsFull(event_queue_count)
       THEN /\ pret' = "PROCESS_POST_EVENT_QUEUE_FULL"
            /\ UNCHANGED <<event_queue_count, fgPc, callE, idx, shadow>>
       ELSE /\ idx' = PostIndex(event_queue_first, event_queue_count)
            /\ event_queue_count' = event_queue_count + 1
            /\ callE' = Event(p, ev, data)
            /\ shadow' = Append(shadow, Event(p, ev, data))
            /\ fgPc' = "post_write"
            /\ pret' = "none"
  /\ UNCHANGED <<process_list_head, pnext, event_queue, event_queue_first,
                 callP, proc, e>>
  /\ UNCHANGED outsideProc

\* process_post_event called from the foreground, after the critical
\* section: the three fields of slot i are written
process_post_event_write ==
  /\ fgPc = "post_write"
  /\ event_queue' = [event_queue EXCEPT ![idx] = callE]
  /\ pret' = "PROCESS_POST_EVENT_OK"
  /\ fgPc' = "idle"
  /\ callE' = NoEvent
  /\ idx' = 0
  /\ UNCHANGED <<process_list_head, pnext, event_queue_count,
                 event_queue_first, callP, proc, e, shadow>>
  /\ UNCHANGED outsideProc

\* process_post_event called from an interrupt routine: interrupts are
\* disabled, the whole call is one step; it may preempt the foreground
\* wherever the foreground is not in a critical section
isr_post_event(p, ev, data) ==
  /\ IF QueueIsFull(event_queue_count)
       THEN /\ pret' = "PROCESS_POST_EVENT_QUEUE_FULL"
            /\ UNCHANGED <<event_queue, event_queue_count, shadow>>
       ELSE /\ event_queue' =
                 [event_queue EXCEPT
                    ![PostIndex(event_queue_first, event_queue_count)] =
                       Event(p, ev, data)]
            /\ event_queue_count' = event_queue_count + 1
            /\ shadow' = Append(shadow, Event(p, ev, data))
            /\ pret' = "PROCESS_POST_EVENT_OK"
  /\ UNCHANGED <<process_list_head, pnext, event_queue_first, fgPc, callP,
                 callE, idx, proc, e>>
  /\ UNCHANGED outsideProc

\* process_execute up to its critical section: the test for an empty ring
\* and the copy of the first event
process_execute_read ==
  /\ fgPc = "idle"
  /\ event_queue_count # 0
  /\ e' = event_queue[event_queue_first]
  /\ fgPc' = "exec_dec"
  /\ pret' = "none"
  /\ UNCHANGED <<process_list_head, pnext, event_queue, event_queue_count,
                 event_queue_first, callP, callE, idx, proc, shadow>>
  /\ UNCHANGED outsideProc

\* process_execute with nothing in the ring returns at once
process_execute_empty ==
  /\ fgPc = "idle"
  /\ event_queue_count = 0
  /\ pret' = "none"
  /\ UNCHANGED <<process_list_head, pnext, event_queue, event_queue_count,
                 event_queue_first, fgPc, callP, callE, idx, proc, e, shadow>>
  /\ UNCHANGED outsideProc

\* process_execute, the critical section and the call of the thread of e.p
\* with e.ev and e.data.  The slot that held the event is not read again
\* before a post writes it; the model resets it so that states which differ
\* only in such dead values coincide.
process_execute_dispatch ==
  /\ fgPc = "exec_dec"
  /\ event_queue_count' = event_queue_count - 1
  /\ event_queue_first' = NextFirst(event_queue_first)
  /\ event_queue' = [event_queue EXCEPT ![event_queue_first] = NoEvent]
  /\ shadow' = IF shadow = <<>> THEN shadow ELSE Tail(shadow)
  /\ e' = NoEvent
  /\ fgPc' = "idle"
  /\ pret' = "none"
  /\ UNCHANGED <<process_list_head, pnext, callP, callE, idx, proc>>
  /\ UNCHANGED outsideProc

\* The body of the loop of process_list_contains leaves proc as it is
ContainsAdvance(pr) == pr

\* process_start(p): the call of process_list_contains(p)
process_start_call(p) ==
  /\ fgPc = "idle"
  /\ fgPc' = "start_contains"
  /\ callP' = p
  /\ proc' = process_list_head
  /\ pret' = "none"
  /\ UNCHANGED <<process_list_head, pnext, event_queue, event_queue_count,
                 event_queue_first, callE, idx, e, shadow>>
  /\ UNCHANGED outsideProc

\* One iteration of the loop of process_list_contains; when it returns
\* false, process_start links p in front of the list
process_list_contains_step ==
  /\ fgPc = "start_contains"
  /\ IF proc # NULL
       THEN IF proc = callP
              THEN /\ pret' = "PROCESS_START_ALREADY_STARTED"
                   /\ fgPc' = "idle"
                   /\ callP' = NULL
                   /\ proc' = NULL
                   /\ UNCHANGED <<process_list_head, pnext>>
              ELSE /\ proc' = ContainsAdvance(proc)
                   /\ UNCHANGED <<process_list_head, pnext, fgPc, callP,
                                  pret>>
       ELSE /\ pnext' = [pnext EXCEPT ![callP] = process_list_head]
            /\ process_list_head' = callP
            /\ fgPc' = "start_post"
            /\ UNCHANGED <<callP, proc, pret>>
  /\ UNCHANGED <<event_queue, event_queue_count, event_queue_first, callE,
                 idx, e, shadow>>
  /\ UNCHANGED outsideProc

\* process_start: the critical section of process_post_event(p,
\* PROCESS_EVENT_INIT, PROCESS_DATA_NULL); its status is not looked at
process_start_post ==
  /\ fgPc = "start_post"
  /\ IF QueueIsFull(event_queue_count)
       THEN /\ pret' = "PROCESS_START_OK"
            /\ fgPc' = "idle"
            /\ callP' = NULL
            /\ UNCHANGED <<event_queue_count, callE, idx, shadow>>
       ELSE /\ idx' = PostIndex(event_queue_first, event_queue_count)
            /\ event_queue_count' = event_queue_count + 1
            /\ callE' = Event(callP, "PROCESS_EVENT_INIT", 0)
            /\ shadow' = Append(shadow, Event(callP, "PROCESS_EVENT_INIT", 0))
            /\ fgPc' = "start_post_write"
            /\ UNCHANGED <<callP, pret>>
  /\ UNCHANGED <<process_list_head, pnext, event_queue, event_queue_first,
                 proc, e>>
  /\ UNCHANGED outsideProc

\* process_start: the INIT event is written and process_start returns
process_start_post_write ==
  /\ fgPc = "start_post_write"
  /\ event_queue' = [event_queue EXCEPT ![idx] = callE]
  /\ pret' = "PROCESS_START_OK"
  /\ fgPc' = "idle"
  /\ callP' = NULL
  /\ callE' = NoEvent
  /\ idx' = 0
  /\ UNCHANGED <<process_list_head, pnext, event_queue_count,
                 event_queue_first, proc, e, shadow>>
  /\ UNCHANGED outsideProc

\* The pointer a cursor of process_stop points to: cursor NULL stands for
\* &process_list_head, cursor q for &q->next
Deref(cursor) == IF cursor = NULL THEN process_list_head ELSE pnext[cursor]

\* The body of the loop of process_stop leaves the cursor as it is
StopAdvance(cursor) == cursor

\* process_stop(p): proc = &process_list_head
process_stop_call(p) ==
  /\ fgPc = "idle"
  /\ fgPc' = "stop_loop"
  /\ callP' = p
  /\ proc' = NULL
  /\ pret' = "none"
  /\ UNCHANGED <<process_list_head, pnext, event_queue, event_queue_count,
                 event_queue_first, callE, idx, e, shadow>>
  /\ UNCHANGED outsideProc

\* One iteration of the loop of process_stop
process_stop_step ==
  /\ fgPc = "stop_loop"
  /\ IF Deref(proc) # NULL
       THEN IF Deref(proc) = callP
              THEN /\ IF proc = NULL
                        THEN /\ process_list_head' = pnext[Deref(proc)]
                             /\ UNCHANGED pnext
                        ELSE /\ pnext' = [pnext EXCEPT
                                            ![proc] = pnext[Deref(proc)]]
                             /\ UNCHANGED process_list_head
                   /\ pret' = "PROCESS_STOP_OK"
                   /\ fgPc' = "idle"
                   /\ callP' = NULL
                   /\ proc' = NULL
              ELSE /\ proc' = StopAdvance(proc)
                   /\ UNCHANGED <<process_list_head, pnext, fgPc, callP,
                                  pret>>
       ELSE /\ pret' = "PROCESS_STOP_NOT_STARTED"
            /\ fgPc' = "idle"
            /\ callP' = NULL
            /\ proc' = NULL
            /\ UNCHANGED <<process_list_head, pnext>>
  /\ UNCHANGED <<event_queue, event_queue_count, event_queue_first, callE,
                 idx, e, shadow>>
  /\ UNCHANGED outsideProc

\* The steps of the foreground
ProcForeground ==
  \/ \E p \in Procs, data \in 0 .. MaxData :
       process_post_event_reserve(p, "EV_FG", data)
  \/ process_post_event_write
  \/ process_execute_read
  \/ process_execute_empty
  \/ process_execute_dispatch
  \/ \E p \in Procs : process_start_call(p)
  \/ process_list_contains_step
  \/ process_start_post
  \/ process_start_post_write
  \/ \E p \in Procs : process_stop_call(p)
  \/ process_stop_step

ProcNext ==
  \/ ProcForeground
  \/ \E p \in Procs, data \in 0 .. MaxData : isr_post_event(p, "EV_ISR", data)

\* ------------------------------------------------------------------------
\* The SPI link: spi_common.h, crc16.h and the static data of spi_master.c
\* and spi_slave.c
\* ------------------------------------------------------------------------

Trxs == 1 .. NumTrx

\* The process a transfer notifies and the callback process of the slave
SPI_CLIENT == 2

\* The type byte the slave sends while it has no response; the master calls
\* it TYPE_RX_PROCESSING, the slave SPI_TYPE_PREPARING_RESPONSE
TYPE_RX_PROCESSING == 240
SPI_TYPE_PREPARING_RESPONSE == TYPE_RX_PROCESSING

\* The error types, all greater than TYPE_RX_PROCESSING
SPI_ERR_TYPE_MIN == 241
SPI_TYPE_ERR_CRC_FAILURE == 241
SPI_TYPE_ERR_MESSAGE_TOO_LARGE == 242
SPI_TYPE_ERR_SLAVE_NOT_READY == 243
SPI_TYPE_ERR_SLAVE_RESPONSE_INVALID == 244

\* The bits of the flags byte of a transfer
TRX_QUEUED == 128
TRX_IN_TRANSMISSION == 64
TRX_USE_LLP == 32
RX_DELAY_REMAINING_MASK == 15

\* uint8_t arithmetic is modulo Byte
Byte == 256

\* uint16_t values
Crc16Mod == 65536

\* a ^ b on 16 bits
XorOf[a \in 0 .. Crc16Mod - 1, b \in 0 .. Crc16Mod - 1] ==
  IF a = 0 THEN b
  ELSE IF b = 0 THEN a
  ELSE ((a + b) % 2) + 2 * XorOf[a \div 2, b \div 2]

Xor(a, b) == XorOf[a, b]

\* n rounds of the shift register of the CRC-16 with polynomial 0xA001
CrcShift[c \in 0 .. Crc16Mod - 1, n \in 0 .. 8] ==
  IF n = 0 THEN c
  ELSE CrcShift[IF c % 2 = 1 THEN Xor(c \div 2, 40961) ELSE c \div 2,
                n - 1]

\* crc16_init(&crc)
Crc16Init == 65535

\* crc16_update(&crc, b)
crc16_update(c, b) == CrcShift[Xor(c, b), 8]

RECURSIVE Crc16Of(_, _)
\* The CRC-16 of a sequence of bytes, starting from c
Crc16Of(c, bytes) ==
  IF bytes = <<>> THEN c
  ELSE Crc16Of(crc16_update(c, Head(bytes)), Tail(bytes))

\* _BV(bit) of a flags byte: test, set and clear
HasBit(f, w) == (f \div w) % 2 = 1
SetBit(f, w) == IF HasBit(f, w) THEN f ELSE f + w
ClearBit(f, w) == IF HasBit(f, w) THEN f - w ELSE f

\* The payloads the applications send: the first n bytes of a pattern
Payload(n) == [i \in 1 .. n |-> 169 + i]

\* The static data of spi_master.c before spim_init, and transfer structures
\* that are all zero
SpimIdle ==
  /\ trx_queue_head = NULL
  /\ trx_queue_tail = NULL
  /\ trx_flags = [t \in Trxs |-> 0]
  /\ trx_next = [t \in Trxs |-> NULL]
  /\ trx_p = [t \in Trxs |-> NULL]
  /\ trx_ss = [t \in Trxs |-> TRUE]
  /\ tx_type = [t \in Trxs |-> 0]
  /\ tx_size = [t \in Trxs |-> 0]
  /\ tx_buf = [t \in Trxs |-> <<>>]
  /\ rx_type = [t \in Trxs |-> 0]
  /\ rx_size = [t \in Trxs |-> 0]
  /\ rx_buf = [t \in Trxs |-> <<>>]
  /\ spimPt = "begin"
  /\ spim_events = 0
  /\ trx_timer = FALSE
  /\ tx_counter = 0
  /\ rx_counter = 0
  /\ crc = 0
  /\ rx_crc = 0
  /\ spdr = 0
  /\ qret = "none"
  /\ started = [t \in Trxs |-> 0]
  /\ terminated = [t \in Trxs |-> 0]
  /\ last_event = [t \in Trxs |-> "none"]
  /\ stray = 0
  /\ polls = 0
  /\ wire = <<>>
  /\ order = <<>>

\* No call of spis_send_response yet
NoResponse == [ret |-> "none", type |-> 0, payload |-> <<>>, size |-> 0]

\* The static data of spi_slave.c before spis_init
SpisIdle ==
  /\ transfer_in_progress = FALSE
  /\ status = "SPIS_TRX_READY"
  /\ s_rx_type = 0
  /\ s_rx_size = 0
  /\ s_rx_buf = [i \in 0 .. SPIS_RX_BUF_SIZE - 1 |-> 0]
  /\ s_crc = 0
  /\ rx_received = 0
  /\ s_tx_buf = <<>>
  /\ tx_remaining = 0
  /\ error_code_remaining = 0
  /\ s_spdr = 0
  /\ s_data = 0
  /\ spif = FALSE
  /\ ss_pin = TRUE
  /\ ss_changed = FALSE
  /\ frame = <<>>
  /\ s_events = <<>>
  /\ resp = NoResponse
  /\ overrun = FALSE

SpiIdle == SpimIdle /\ SpisIdle

\* ------------------------------------------------------------------------
\* clock.c
\* ------------------------------------------------------------------------

\* clock_time_t values are modulo ClockMod (65536 on the target)
ClockMod == ClockTimerMod * ClockUpperMod

\* The clock after clock_init: the counter is 0 and runs, clock_upper is 0
ClockIdle ==
  /\ clock_upper = 0
  /\ clk_cntr = 0
  /\ clk_ovf = FALSE
  /\ clk_ie = TRUE
  /\ clkPc = "idle"
  /\ clk_hi = 0
  /\ clk_lo = 0
  /\ clk_ticks = 0
  /\ clk_at = 0
  /\ clk_reads = 0
  /\ clk_now = 0
  /\ clk_prev = 0
  /\ clk_elapsed = 0

\* The hardware timer of the clock counts one tick; at the wrap to 0 it
\* raises the overflow flag.  The overflow interrupt is served within one
\* round of the counter.
clock_tick ==
  /\ ~(clk_cntr = ClockTimerMod - 1 /\ clk_ovf)
  /\ clk_cntr' = (clk_cntr + 1) % ClockTimerMod
  /\ clk_ovf' = (clk_ovf \/ clk_cntr = ClockTimerMod - 1)
  /\ clk_ticks' = (clk_ticks + 1) % ClockMod
  /\ UNCHANGED <<clock_upper, clk_ie, clkPc, clk_hi, clk_lo, clk_at,
                 clk_reads, clk_now, clk_prev, clk_elapsed>>
  /\ UNCHANGED outsideClock

\* INTERRUPT(TMR_INTERRUPT_VECT(CLOCK_TMR, OVF))
CLOCK_OVF_VECT ==
  /\ clk_ovf
  /\ clk_ie
  /\ clk_ovf' = FALSE
  /\ clock_upper' = (clock_upper + 1) % ClockUpperMod
  /\ UNCHANGED <<clk_cntr, clk_ie, clkPc, clk_hi, clk_lo, clk_ticks, clk_at,
                 clk_reads, clk_now, clk_prev, clk_elapsed>>
  /\ UNCHANGED outsideClock

\* A pending interrupt that is enabled is served before the code that calls
\* clock_get_time executes its next instruction
ClockForegroundRuns == ~(clk_ovf /\ clk_ie)

\* The code that calls clock_get_time masks the interrupts, or enables them
\* again
clock_caller_masks(masked) ==
  /\ ClockForegroundRuns
  /\ clkPc = "idle"
  /\ clk_ie = masked
  /\ clk_ie' = ~masked
  /\ UNCHANGED <<clock_upper, clk_cntr, clk_ovf, clkPc, clk_hi, clk_lo,
                 clk_ticks, clk_at, clk_reads, clk_now, clk_prev, clk_elapsed>>
  /\ UNCHANGED outsideClock

\* (clock_upper << 8) | cntr as a clock_time_t
ClockCompose(upper, counter) == (upper * ClockTimerMod + counter) % ClockMod

\* clock_get_time reads the first operand of the | expression: clock_upper
\* or the hardware counter, in the order the compiler has chosen
clock_get_time_first(upper_first) ==
  /\ ClockForegroundRuns
  /\ clkPc = "idle"
  /\ IF upper_first
       THEN /\ clk_hi' = clock_upper
            /\ clkPc' = "upper_read"
            /\ UNCHANGED <<clk_lo, clk_at>>
       ELSE /\ clk_lo' = clk_cntr
            /\ clk_at' = clk_ticks
            /\ clkPc' = "cntr_read"
            /\ UNCHANGED clk_hi
  /\ clk_elapsed' = IF upper_first THEN clk_elapsed
                    ELSE (clk_ticks - clk_at) % ClockMod
  /\ UNCHANGED <<clock_upper, clk_cntr, clk_ovf, clk_ie, clk_ticks, clk_reads,
                 clk_now, clk_prev>>
  /\ UNCHANGED outsideClock

\* clock_get_time reads the second operand and returns the composed value
clock_get_time_return ==
  /\ ClockForegroundRuns
  /\ clkPc # "idle"
  /\ clkPc' = "idle"
  /\ \E hi \in {IF clkPc = "upper_read" THEN clk_hi ELSE clock_upper},
        lo \in {IF clkPc = "cntr_read" THEN clk_lo ELSE clk_cntr} :
       /\ clk_hi' = hi
       /\ clk_lo' = lo
       /\ clk_now' = ClockCompose(hi, lo)
  /\ clk_prev' = clk_now
  /\ clk_reads' = IF clk_reads < 2 THEN clk_reads + 1 ELSE clk_reads
  /\ IF clkPc = "upper_read"
       THEN /\ clk_at' = clk_ticks
            /\ clk_elapsed' = (clk_ticks - clk_at) % ClockMod
       ELSE UNCHANGED <<clk_at, clk_elapsed>>
  /\ UNCHANGED <<clock_upper, clk_cntr, clk_ovf, clk_ie, clk_ticks>>
  /\ UNCHANGED outsideClock

ClockNext ==
  \/ clock_tick
  \/ CLOCK_OVF_VECT
  \/ \E masked \in BOOLEAN : clock_caller_masks(masked)
  \/ \E upper_first \in BOOLEAN : clock_get_time_first(upper_first)
  \/ clock_get_time_return

\* ------------------------------------------------------------------------
\* adc.c
\* ------------------------------------------------------------------------

Adcs == 1 .. NumAdcs

\* adc_process, the process of the ADC engine
ADC_PROCESS == 1

\* The process the application stores in adc->process
OWNER_PROCESS == 2

\* ADC_CHANNEL_GND, the channel selected when nothing is queued
ADC_CHANNEL_GND == 15

\* The configurations adc_init is called with.  The oversamples field holds
\* the number of conversions of a measurement.
AdcChannels == {3, 5}
OversampleChoices == {1, 4}
SkipChoices == {0, 1}

\* The zero-initialised static data of adc.c, before init_adc and adc_init
AdcIdle ==
  /\ adcs = NULL
  /\ anext = [a \in Adcs |-> NULL]
  /\ enabled = [a \in Adcs |-> FALSE]
  /\ channel = [a \in Adcs |-> 0]
  /\ oversamples = [a \in Adcs |-> 0]
  /\ skip = [a \in Adcs |-> 0]
  /\ value = [a \in Adcs |-> 0]
  /\ next_value = [a \in Adcs |-> 0]
  /\ oversamples_remaining = [a \in Adcs |-> 0]
  /\ owner = [a \in Adcs |-> NULL]
  /\ next_next_adc = NULL
  /\ next_adc_to_consider = NULL
  /\ period = 0
  /\ current_adc = NULL
  /\ next_adc = NULL
  /\ mux = 0
  /\ didr = {}
  /\ adcPt = "begin"
  /\ hadc = NULL
  /\ qadc = NULL
  /\ nconv = 0
  /\ handled = [a \in Adcs |-> 0]
  /\ completed = [a \in Adcs |-> 0]
  /\ ndisable = 0

\* The state after init_adc and an adc_init of every measurement structure.
\* init_adc selects the ground channel and starts adc_process, whose INIT
\* event is in the ring.  adc_init writes value, next_value, flags_channel,
\* oversamples, skip and next; it writes neither oversamples_remaining, whose
\* value is whatever the structure held, nor process, which the application
\* sets.  The first measurement is of channel 3 or 5, the second of channel
\* 3, so that the list holds two channels or one channel twice.
AdcSysInit ==
  /\ SchedInit
  /\ process_list_head = ADC_PROCESS
  /\ pnext = [p \in 1 .. NumProcs |-> NULL]
  /\ event_queue =
       [i \in 0 .. PROCESS_CONF_EVENT_QUEUE_SIZE - 1 |->
          IF i = 0
            THEN [p |-> ADC_PROCESS, ev |-> "PROCESS_EVENT_INIT", data |-> 0]
            ELSE [p |-> NULL, ev |-> "none", data |-> 0]]
  /\ event_queue_count = 1
  /\ event_queue_first = 0
  /\ fgPc = "idle"
  /\ callP = NULL
  /\ callE = [p |-> NULL, ev |-> "none", data |-> 0]
  /\ idx = 0
  /\ proc = NULL
  /\ e = [p |-> NULL, ev |-> "none", data |-> 0]
  /\ pret = "none"
  /\ shadow = <<[p |-> ADC_PROCESS, ev |-> "PROCESS_EVENT_INIT", data |-> 0]>>
  /\ adcs = NULL
  /\ anext = [a \in Adcs |-> NULL]
  /\ enabled = [a \in Adcs |-> FALSE]
  /\ channel \in [Adcs -> AdcChannels]
  /\ \A a \in Adcs : a > 1 => channel[a] = 3
  /\ oversamples \in [Adcs -> OversampleChoices]
  /\ skip \in [Adcs -> SkipChoices]
  /\ skip[1] = 0
  /\ value = [a \in Adcs |-> 0]
  /\ next_value = [a \in Adcs |-> 0]
  /\ oversamples_remaining \in [Adcs -> 0 .. MaxUninit]
  /\ owner = [a \in Adcs |-> OWNER_PROCESS]
  /\ next_next_adc = NULL
  /\ next_adc_to_consider = NULL
  /\ period = 0
  /\ current_adc = NULL
  /\ next_adc = NULL
  /\ mux = ADC_CHANNEL_GND
  /\ didr = {}
  /\ adcPt = "begin"
  /\ hadc = NULL
  /\ qadc = NULL
  /\ nconv = 0
  /\ handled = [a \in Adcs |-> 0]
  /\ completed = [a \in Adcs |-> 0]
  /\ ndisable = 0
  /\ SpiIdle
  /\ ClockIdle

\* adc_is_enabled without the test of the flag
adc_is_enabled_always(adc) == TRUE

\* adc_is_enabled(adc): the flag FLAG_ADC_ENABLED of adc->flags_channel
adc_is_enabled(adc) == enabled[adc]

\* The ring after process_post_event(p, ev, data) when the call is not
\* preempted between its critical section and the write of the slot; the
\* status is not looked at by any caller in adc.c
PostEvent(p, ev, data) ==
  IF QueueIsFull(event_queue_count)
    THEN UNCHANGED <<event_queue, event_queue_count, shadow>>
    ELSE /\ event_queue' =
              [event_queue EXCEPT
                 ![PostIndex(event_queue_first, event_queue_count)] =
                    Event(p, ev, data)]
         /\ event_queue_count' = event_queue_count + 1
         /\ shadow' = Append(shadow, Event(p, ev, data))

RECURSIVE EnableScan(_, _, _)
\* The loop of adc_enable: the cursor after which adc is linked (NULL for
\* &adcs), or that adc is met on the way
EnableScan(prev, cur, adc) ==
  IF cur # NULL /\ channel[cur] <= channel[adc]
    THEN IF cur = adc
           THEN [already |-> TRUE, prev |-> prev]
           ELSE EnableScan(cur, anext[cur], adc)
    ELSE [already |-> FALSE, prev |-> prev]

\* adc_enable(adc), called from the foreground
adc_enable(adc) ==
  /\ fgPc = "idle"
  /\ LET r == EnableScan(NULL, adcs, adc)
     IN IF r.already
          THEN UNCHANGED <<adcs, anext, enabled, didr, event_queue,
                           event_queue_count, shadow>>
          ELSE /\ IF r.prev = NULL
                    THEN /\ anext' = [anext EXCEPT ![adc] = adcs]
                         /\ adcs' = adc
                    ELSE /\ anext' = [anext EXCEPT ![adc] = anext[r.prev],
                                                   ![r.prev] = adc]
                         /\ UNCHANGED adcs
               /\ enabled' = [enabled EXCEPT ![adc] = TRUE]
               /\ didr' = didr \cup {channel[adc]}
               /\ PostEvent(ADC_PROCESS, "EVENT_ADC_LIST_CHANGED", 0)
  /\ pret' = "none"
  /\ UNCHANGED <<process_list_head, pnext, event_queue_first, fgPc, callP,
                 callE, idx, proc, e>>
  /\ UNCHANGED <<channel, oversamples, skip, value, next_value,
                 oversamples_remaining, owner, next_next_adc,
                 next_adc_to_consider, period, current_adc, next_adc, mux,
                 adcPt, hadc, qadc, nconv, handled, completed>>
  /\ UNCHANGED <<ndisable, outsideAdc>>

RECURSIVE DisableScan(_, _, _, _, _)
\* The loop of adc_disable: the cursor whose link holds adc (NULL for &adcs),
\* the node the loop stops at, and the flag only_adc_for_channel.  The loop
\* writes false to other_adc_for_channel, a name the function does not
\* declare: the write reaches only_adc_for_channel in a build that takes the
\* two names for one object (sameFlag) and leaves it alone in a build that
\* takes them for two.
DisableScan(prev, cur, adc, only, sameFlag) ==
  IF cur # NULL /\ cur # adc
    THEN DisableScan(cur, anext[cur], adc,
                     IF channel[cur] = channel[adc] /\ sameFlag
                       THEN FALSE ELSE only,
                     sameFlag)
    ELSE [prev |-> prev, cur |-> cur, only |-> only]

\* adc_disable(adc), called from the foreground.  After the unlink *a is the
\* node that followed adc.
adc_disable(adc) ==
  /\ fgPc = "idle"
  /\ ndisable < MaxDisables
  /\ ndisable' = ndisable + 1
  /\ \E sameFlag \in BOOLEAN :
       LET r == DisableScan(NULL, adcs, adc, TRUE, sameFlag)
           after == anext[adc]
           only_adc_for_channel ==
             r.only /\ (after = NULL \/ channel[after] # channel[adc])
       IN IF r.cur = NULL
            THEN UNCHANGED <<adcs, anext, enabled, next_adc_to_consider, didr>>
            ELSE /\ IF r.prev = NULL
                      THEN /\ adcs' = after
                           /\ UNCHANGED anext
                      ELSE /\ anext' = [anext EXCEPT ![r.prev] = after]
                           /\ UNCHANGED adcs
                 /\ enabled' = [enabled EXCEPT ![adc] = FALSE]
                 /\ next_adc_to_consider' =
                      IF next_adc_to_consider = adc THEN after
                      ELSE next_adc_to_consider
                 /\ didr' = IF only_adc_for_channel
                              THEN didr \ {channel[adc]} ELSE didr
  /\ pret' = "none"
  /\ UNCHANGED <<process_list_head, pnext, event_queue, event_queue_count,
                 event_queue_first, fgPc, callP, callE, idx, proc, e, shadow>>
  /\ UNCHANGED <<channel, oversamples, skip, value, next_value,
                 oversamples_remaining, owner, next_next_adc, period,
                 current_adc, next_adc, mux, adcPt, hadc, qadc, nconv,
                 handled, completed>>
  /\ UNCHANGED outsideAdc

\* The conversion-complete interrupt with a shift that moves next_next_adc
\* straight to current_adc
ADC_CONVERSION_COMPLETE_SHIFTS_TWO ==
  /\ (current_adc # NULL /\ adc_is_enabled(current_adc))
       => nconv < MaxConversions
  /\ mux' = IF next_next_adc = NULL THEN ADC_CHANNEL_GND
              ELSE channel[next_next_adc]
  /\ IF current_adc # NULL /\ adc_is_enabled(current_adc)
       THEN /\ next_value' = [next_value EXCEPT
                                ![current_adc] = (@ + RawSample) % Word16]
            /\ PostEvent(ADC_PROCESS, "EVENT_ADC_CONVERSION_COMPLETE",
                         current_adc)
            /\ nconv' = nconv + 1
       ELSE UNCHANGED <<next_value, event_queue, event_queue_count, shadow,
                        nconv>>
  /\ current_adc' = next_next_adc
  /\ next_adc' = NULL
  /\ next_next_adc' = NULL
  /\ pret' = "none"
  /\ UNCHANGED <<process_list_head, pnext, event_queue_first, fgPc, callP,
                 callE, idx, proc, e>>
  /\ UNCHANGED <<adcs, anext, enabled, channel, oversamples, skip, value,
                 oversamples_remaining, owner, next_adc_to_consider, period,
                 didr, adcPt, hadc, qadc, handled, completed>>
  /\ UNCHANGED <<ndisable, outsideAdc>>

\* INTERRUPT(ADC_CONVERSION_COMPLETE): the converter runs freely, the routine
\* may preempt the foreground between any two of its steps
ADC_CONVERSION_COMPLETE ==
  /\ (current_adc # NULL /\ adc_is_enabled(current_adc))
       => nconv < MaxConversions
  /\ mux' = IF next_next_adc = NULL THEN ADC_CHANNEL_GND
              ELSE channel[next_next_adc]
  /\ IF current_adc # NULL /\ adc_is_enabled(current_adc)
       THEN /\ next_value' = [next_value EXCEPT
                                ![current_adc] = (@ + RawSample) % Word16]
            /\ PostEvent(ADC_PROCESS, "EVENT_ADC_CONVERSION_COMPLETE",
                         current_adc)
            /\ nconv' = nconv + 1
       ELSE UNCHANGED <<next_value, event_queue, event_queue_count, shadow,
                        nconv>>
  /\ current_adc' = next_adc
  /\ next_adc' = next_next_adc
  /\ next_next_adc' = NULL
  /\ pret' = "none"
  /\ UNCHANGED <<process_list_head, pnext, event_queue_first, fgPc, callP,
                 callE, idx, proc, e>>
  /\ UNCHANGED <<adcs, anext, enabled, channel, oversamples, skip, value,
                 oversamples_remaining, owner, next_adc_to_consider, period,
                 didr, adcPt, hadc, qadc, handled, completed>>
  /\ UNCHANGED <<ndisable, outsideAdc>>

\* process_execute, the critical section and the call of the thread of e.p.
\* The thread of adc_process starts at PROCESS_BEGIN and yields in
\* PROCESS_WAIT_EVENT_UNTIL with the first event it is called with; from then
\* on it goes on with a conversion-complete or a list-changed event and
\* yields again with any other.  The thread of the owner of a measurement
\* returns at once.
adc_execute_dispatch ==
  /\ fgPc = "exec_dec"
  /\ event_queue_count' = event_queue_count - 1
  /\ event_queue_first' = NextFirst(event_queue_first)
  /\ event_queue' = [event_queue EXCEPT ![event_queue_first] = NoEvent]
  /\ shadow' = IF shadow = <<>> THEN shadow ELSE Tail(shadow)
  /\ e' = NoEvent
  /\ pret' = "none"
  /\ IF e.p = ADC_PROCESS
       THEN IF adcPt = "begin"
              THEN /\ adcPt' = "waiting"
                   /\ fgPc' = "idle"
                   /\ UNCHANGED <<hadc, qadc>>
              ELSE /\ UNCHANGED adcPt
                   /\ IF e.ev = "EVENT_ADC_CONVERSION_COMPLETE"
                        THEN /\ fgPc' = "adc_handle"
                             /\ hadc' = e.data
                             /\ UNCHANGED qadc
                        ELSE IF e.ev = "EVENT_ADC_LIST_CHANGED"
                               THEN /\ fgPc' = "adc_queue"
                                    /\ qadc' = next_adc_to_consider
                                    /\ UNCHANGED hadc
                               ELSE /\ fgPc' = "idle"
                                    /\ UNCHANGED <<hadc, qadc>>
       ELSE /\ fgPc' = "idle"
            /\ UNCHANGED <<adcPt, hadc, qadc>>
  /\ UNCHANGED <<process_list_head, pnext, callP, callE, idx, proc>>
  /\ UNCHANGED <<adcs, anext, enabled, channel, oversamples, skip, value,
                 next_value, oversamples_remaining, owner, next_next_adc,
                 next_adc_to_consider, period, current_adc, next_adc, mux,
                 didr, nconv, handled, completed>>
  /\ UNCHANGED <<ndisable, outsideAdc>>

\* handle_completed_conversion(adc): the test and, in its first branch, the
\* copy of the accumulator; in its second branch the decrement, after which
\* the thread goes on with queue_next_next_adc
handle_completed_conversion_test ==
  /\ fgPc = "adc_handle"
  /\ IF adc_is_enabled(hadc) /\ oversamples_remaining[hadc] = 0
       THEN /\ value' = [value EXCEPT ![hadc] = next_value[hadc]]
            /\ fgPc' = "adc_latch"
            /\ UNCHANGED <<oversamples_remaining, handled, hadc, qadc>>
       ELSE /\ oversamples_remaining' =
                 [oversamples_remaining EXCEPT ![hadc] = (@ - 1) % Word16]
            /\ handled' = [handled EXCEPT ![hadc] = @ + 1]
            /\ fgPc' = "adc_queue"
            /\ hadc' = NULL
            /\ qadc' = next_adc_to_consider
            /\ UNCHANGED value
  /\ pret' = "none"
  /\ UNCHANGED <<process_list_head, pnext, event_queue, event_queue_count,
                 event_queue_first, callP, callE, idx, proc, e,
                 shadow>>
  /\ UNCHANGED <<adcs, anext, enabled, channel, oversamples, skip, next_value,
                 owner, next_next_adc, next_adc_to_consider, period,
                 current_adc, next_adc, mux, didr, adcPt, nconv, completed>>
  /\ UNCHANGED <<ndisable, outsideAdc>>

\* handle_completed_conversion, first branch: the accumulator is cleared and
\* the counter reloaded
handle_completed_conversion_latch ==
  /\ fgPc = "adc_latch"
  /\ next_value' = [next_value EXCEPT ![hadc] = 0]
  /\ oversamples_remaining' =
       [oversamples_remaining EXCEPT ![hadc] = oversamples[hadc]]
  /\ fgPc' = "adc_align"
  /\ pret' = "none"
  /\ UNCHANGED <<process_list_head, pnext, event_queue, event_queue_count,
                 event_queue_first, callP, callE, idx, proc, e,
                 shadow>>
  /\ UNCHANGED <<adcs, anext, enabled, channel, oversamples, skip, value,
                 owner, next_next_adc, next_adc_to_consider, period,
                 current_adc, next_adc, mux, didr, adcPt, hadc, qadc, nconv,
                 handled, completed>>
  /\ UNCHANGED <<ndisable, outsideAdc>>

\* uint8_t i = ~(adc->oversamples) in left_align_value
LeftAlignCounter(o) == 255 - (o % 256)

\* adc->value << 2 and adc->value << 1 in left_align_value are expressions
\* whose result is dropped: the value stays as it is
LeftAlign(v, o) == v

\* One iteration of the loop of left_align_value: neither the value nor i
\* changes, the loop goes on for ever when i is not 0
left_align_value_loop ==
  /\ fgPc = "adc_align"
  /\ LeftAlignCounter(oversamples[hadc]) # 0
  /\ value' = [value EXCEPT ![hadc] = LeftAlign(@, oversamples[hadc])]
  /\ UNCHANGED <<process_list_head, pnext, event_queue, event_queue_count,
                 event_queue_first, fgPc, callP, callE, idx, proc, e, pret, shadow>>
  /\ UNCHANGED <<adcs, anext, enabled, channel, oversamples, skip, next_value,
                 oversamples_remaining, owner, next_next_adc,
                 next_adc_to_consider, period, current_adc, next_adc, mux,
                 didr, adcPt, hadc, qadc, nconv, handled, completed>>
  /\ UNCHANGED <<ndisable, outsideAdc>>

\* left_align_value returns (i is 0, or the compiler has dropped the loop,
\* which has no side effect and which it may assume to terminate) and
\* handle_completed_conversion posts the completion to the owner; the thread
\* goes on with queue_next_next_adc
left_align_value_return ==
  /\ fgPc = "adc_align"
  /\ value' = [value EXCEPT ![hadc] = LeftAlign(@, oversamples[hadc])]
  /\ IF owner[hadc] # NULL
       THEN PostEvent(owner[hadc], "ADC_MEASUREMENT_COMPLETED", hadc)
       ELSE UNCHANGED <<event_queue, event_queue_count, shadow>>
  /\ completed' = [completed EXCEPT ![hadc] = @ + 1]
  /\ handled' = [handled EXCEPT ![hadc] = @ + 1]
  /\ fgPc' = "adc_queue"
  /\ hadc' = NULL
  /\ qadc' = next_adc_to_consider
  /\ pret' = "none"
  /\ UNCHANGED <<process_list_head, pnext, event_queue_first, callP, callE,
                 idx, proc, e>>
  /\ UNCHANGED <<adcs, anext, enabled, channel, oversamples, skip, next_value,
                 oversamples_remaining, owner, next_next_adc,
                 next_adc_to_consider, period, current_adc, next_adc, mux,
                 didr, adcPt, nconv>>
  /\ UNCHANGED <<ndisable, outsideAdc>>

\* should_skip(adc, period): (adc->skip & period) != 0.  The skip masks are
\* of the form 2^k - 1, for which skip & period is period modulo skip + 1.
should_skip(adc, p) == (p % (skip[adc] + 1)) # 0

RECURSIVE SkipForward(_, _)
\* The inner loop of queue_next_next_adc
SkipForward(adc, p) ==
  IF adc # NULL /\ should_skip(adc, p) THEN SkipForward(anext[adc], p)
  ELSE adc

\* One iteration of the outer loop of queue_next_next_adc, or its end
queue_next_next_adc_step ==
  /\ fgPc = "adc_queue"
  /\ IF next_next_adc = NULL /\ adcs # NULL
       THEN LET adc == SkipForward(qadc, period)
            IN /\ IF adc # NULL
                    THEN /\ next_next_adc' = adc
                         /\ next_adc_to_consider' = anext[adc]
                         /\ qadc' = adc
                         /\ UNCHANGED period
                    ELSE /\ qadc' = adcs
                         /\ period' = (period + 1) % PeriodMod
                         /\ UNCHANGED <<next_next_adc, next_adc_to_consider>>
               /\ UNCHANGED fgPc
       ELSE /\ fgPc' = "idle"
            /\ qadc' = NULL
            /\ UNCHANGED <<next_next_adc, next_adc_to_consider, period>>
  /\ pret' = "none"
  /\ UNCHANGED <<process_list_head, pnext, event_queue, event_queue_count,
                 event_queue_first, callP, callE, idx, proc, e,
                 shadow>>
  /\ UNCHANGED <<adcs, anext, enabled, channel, oversamples, skip, value,
                 next_value, oversamples_remaining, owner, current_adc,
                 next_adc, mux, didr, adcPt, hadc, nconv, handled, completed>>
  /\ UNCHANGED <<ndisable, outsideAdc>>

AdcNext ==
  \/ \E adc \in Adcs : adc_enable(adc)
  \/ ADC_CONVERSION_COMPLETE
  \/ process_execute_read
  \/ process_execute_empty
  \/ adc_execute_dispatch
  \/ handle_completed_conversion_test
  \/ handle_completed_conversion_latch
  \/ left_align_value_loop
  \/ left_align_value_return
  \/ queue_next_next_adc_step

\* ------------------------------------------------------------------------
\* spi_master.c
\* ------------------------------------------------------------------------

\* The state after spim_init, with the INIT event of spim_trx_process in the
\* ring, and after the application has set its transfers up: the first with
\* spim_trx_set_llp, the others with spim_trx_set_llp or
\* spim_trx_set_simple.  The first transfer sends up to SPIS_RX_BUF_SIZE + 1
\* payload bytes, the others one; all take up to one byte.
SpimReady ==
  /\ trx_queue_head = NULL
  /\ trx_queue_tail = NULL
  /\ trx_flags \in [Trxs -> {0, TRX_USE_LLP + MAX_RX_DELAY}]
  /\ trx_flags[1] = TRX_USE_LLP + MAX_RX_DELAY
  /\ trx_next = [t \in Trxs |-> NULL]
  /\ trx_p = [t \in Trxs |-> SPI_CLIENT]
  /\ trx_ss = [t \in Trxs |-> TRUE]
  /\ tx_type = [t \in Trxs |-> IF HasBit(trx_flags[t], TRX_USE_LLP)
                                 THEN 16 ELSE 0]
  /\ tx_size \in [Trxs -> 0 .. SPIS_RX_BUF_SIZE + 1]
  /\ \A t \in Trxs : t > 1 => tx_size[t] = 1
  /\ tx_buf = [t \in Trxs |-> Payload(tx_size[t])]
  /\ rx_type = [t \in Trxs |-> 0]
  /\ rx_size = [t \in Trxs |-> 1]
  /\ rx_buf = [t \in Trxs |-> [i \in 1 .. rx_size[t] |-> 0]]
  /\ spimPt = "begin"
  /\ spim_events = 1
  /\ trx_timer = FALSE
  /\ tx_counter = 0
  /\ rx_counter = 0
  /\ crc = 0
  /\ rx_crc = 0
  /\ spdr = 0
  /\ qret = "none"
  /\ started = [t \in Trxs |-> 0]
  /\ terminated = [t \in Trxs |-> 0]
  /\ last_event = [t \in Trxs |-> "none"]
  /\ stray = 0
  /\ polls = 0
  /\ wire = <<>>
  /\ order = <<>>

SpimInit ==
  SchedInit /\ ProcInit /\ AdcIdle /\ SpimReady /\ SpisIdle /\ ClockIdle

\* spim_trx_is_queued, spim_trx_is_in_transmission, get_rx_delay_remaining
spim_trx_is_queued(t) == HasBit(trx_flags[t], TRX_QUEUED)
spim_trx_is_in_transmission(t) == HasBit(trx_flags[t], TRX_IN_TRANSMISSION)
get_rx_delay_remaining(f) == f % (RX_DELAY_REMAINING_MASK + 1)

\* decrement_rx_delay_remaining taking two polls off
decrement_rx_delay_remaining_twice(f) == (f - 2) % Byte

\* decrement_rx_delay_remaining: flags_rx_delay_remaining -= 1 on the byte
decrement_rx_delay_remaining(f) == (f - 1) % Byte

RECURSIVE SumTo(_, _)
\* f[1] + ... + f[n]
SumTo(f, n) == IF n = 0 THEN 0 ELSE f[n] + SumTo(f, n - 1)

\* The number of transfers spim_trx_queue has accepted
Accepted == Len(order) + SumTo(started, NumTrx)

RECURSIVE RemoveFirst(_, _)
\* The sequence without the first occurrence of x
RemoveFirst(seq, x) ==
  IF seq = <<>> THEN seq
  ELSE IF Head(seq) = x THEN Tail(seq)
  ELSE <<Head(seq)>> \o RemoveFirst(Tail(seq), x)

\* spim_trx_queue(trx), called from the foreground
spim_trx_queue(t) ==
  /\ IF spim_trx_is_queued(t)
       THEN /\ qret' = "SPIM_TRX_QUEUE_ALREADY_QUEUED"
            /\ UNCHANGED <<trx_queue_head, trx_queue_tail, trx_next,
                           trx_flags, order>>
       ELSE /\ Accepted < MaxQueued
            /\ IF trx_queue_tail = NULL
                 THEN /\ trx_queue_head' = t
                      /\ trx_next' = [trx_next EXCEPT ![t] = NULL]
                 ELSE /\ trx_next' = [trx_next EXCEPT
                                        ![trx_queue_tail] = t, ![t] = NULL]
                      /\ UNCHANGED trx_queue_head
            /\ trx_queue_tail' = t
            /\ trx_flags' = [trx_flags EXCEPT ![t] = SetBit(@, TRX_QUEUED)]
            /\ order' = Append(order, t)
            /\ qret' = "SPIM_TRX_QUEUE_OK"
  /\ UNCHANGED <<trx_p, trx_ss, tx_type, tx_size, tx_buf, rx_type, rx_size,
                 rx_buf, spimPt, spim_events, trx_timer, tx_counter,
                 rx_counter, crc, rx_crc, spdr, started, terminated,
                 last_event, stray, polls, wire>>
  /\ UNCHANGED <<spisVars, outsideSpi>>

\* Some process posts an event to spim_trx_process, which has none in the
\* ring
spim_post_event ==
  /\ spim_events = 0
  /\ spim_events' = spim_events + 1
  /\ UNCHANGED <<trx_queue_head, trx_queue_tail, trx_flags, trx_next, trx_p,
                 trx_ss, tx_type, tx_size, tx_buf, rx_type, rx_size, rx_buf,
                 spimPt, trx_timer, tx_counter, rx_counter, crc, rx_crc,
                 spdr, qret, started, terminated, last_event, stray, polls,
                 wire, order>>
  /\ UNCHANGED <<spisVars, outsideSpi>>

\* The delay trx_timer was set to has passed; the delays leave the slave the
\* time to take the byte it has shifted in
trx_timer_expires ==
  /\ ~trx_timer
  /\ ~spif
  /\ spimPt \notin {"begin", "yield", "wait_queue", "undefined"}
  /\ trx_timer' = TRUE
  /\ UNCHANGED <<trx_queue_head, trx_queue_tail, trx_flags, trx_next, trx_p,
                 trx_ss, tx_type, tx_size, tx_buf, rx_type, rx_size, rx_buf,
                 spimPt, spim_events, tx_counter, rx_counter, crc, rx_crc,
                 spdr, qret, started, terminated, last_event, stray, polls,
                 wire, order>>
  /\ UNCHANGED <<spisVars, outsideSpi>>

\* What a run of the thread of spim_trx_process reads and writes
Mst ==
  [head |-> trx_queue_head, tail |-> trx_queue_tail, flags |-> trx_flags,
   ss |-> trx_ss, rxt |-> rx_type, rxs |-> rx_size, rxb |-> rx_buf,
   pt |-> spimPt, timer |-> trx_timer, txc |-> tx_counter,
   rxc |-> rx_counter, crc |-> crc, rxcrc |-> rx_crc, spdr |-> spdr,
   started |-> started, terminated |-> terminated, last |-> last_event,
   stray |-> stray, polls |-> polls, wire |-> wire, order |-> order]

\* The thread goes on at pt, unless it has read or written through a null
\* trx_queue_head: from there on the behaviour of the program is not
\* defined, and the model does not follow it
Goto(m, pt) == IF m.pt = "undefined" THEN m ELSE [m EXCEPT !.pt = pt]

\* A read or a write of a field of *trx_queue_head
HeadDeref(m) == IF m.head = NULL THEN [m EXCEPT !.pt = "undefined"] ELSE m

\* TRUE when the head of the queue is a transfer in transmission
HeadInTransmission(m) ==
  m.head # NULL /\ HasBit(m.flags[m.head], TRX_IN_TRANSMISSION)

\* tx_byte(b): the byte is shifted out and r is shifted in
TxByte(m, b, r) ==
  IF m.pt = "undefined" THEN m
  ELSE [m EXCEPT !.spdr = r,
                 !.wire = Append(@, b),
                 !.stray = IF HeadInTransmission(m) THEN @ ELSE @ + 1]

\* timer_set and timer_restart
TimerSet(m) == [m EXCEPT !.timer = FALSE]

\* shift_trx_queue, after end_transfer has updated the flags
ShiftTrxQueue(m) ==
  LET nh == trx_next[m.head]
  IN [m EXCEPT !.head = nh,
               !.tail = IF nh = NULL THEN NULL ELSE @]

\* end_transfer(ev)
EndTransfer(m, ev) ==
  IF m.pt = "undefined" THEN m
  ELSE IF m.head = NULL THEN HeadDeref(m)
  ELSE LET h == m.head
       IN ShiftTrxQueue(
            [m EXCEPT
               !.terminated[h] = IF trx_p[h] # NULL THEN @ + 1 ELSE @,
               !.last[h] = IF trx_p[h] # NULL THEN ev ELSE @,
               !.ss[h] = TRUE,
               !.flags[h] = ClearBit(ClearBit(@, TRX_IN_TRANSMISSION),
                                     TRX_QUEUED),
               !.stray = IF HeadInTransmission(m) THEN @ ELSE @ + 1])

\* is_error_response_type(type)
is_error_response_type(type) == type > TYPE_RX_PROCESSING

\* The test of the loop that sends the payload, and the wait that follows
TxLoop(m) ==
  IF m.pt = "undefined" \/ m.head = NULL THEN HeadDeref(m)
  ELSE IF m.txc < tx_size[m.head] THEN Goto(m, "tx_payload")
  ELSE Goto(m, "tx_footer0")

\* The test of the loop that receives the payload, and the wait that follows
RxLoop(m) ==
  IF m.pt = "undefined" \/ m.head = NULL THEN HeadDeref(m)
  ELSE IF m.rxc < m.rxs[m.head] THEN Goto(m, "rx_payload")
  ELSE Goto(m, "rx_footer0")

\* The test of the loop that polls for the response; when the loop is left,
\* the test for a response that takes too long and the first header byte
PollLoop(m) ==
  IF m.pt = "undefined" \/ m.head = NULL THEN HeadDeref(m)
  ELSE IF /\ get_rx_delay_remaining(m.flags[m.head]) > 0
          /\ m.spdr = TYPE_RX_PROCESSING
         THEN Goto(m, "rx_poll")
  ELSE IF m.spdr = TYPE_RX_PROCESSING
         THEN Goto(EndTransfer(m, "SPIM_TRX_ERR_NO_RESPONSE"), "yield")
  ELSE Goto([m EXCEPT !.crc = Crc16Init, !.rxt[m.head] = m.spdr],
            "rx_type")

\* A simple transfer, which is made in one run of the thread: every byte
\* shifted in is r
SimpleTransfer(m, r) ==
  LET h == m.head
      n == IF tx_size[h] > m.rxs[h] THEN tx_size[h] ELSE m.rxs[h]
      sent == [i \in 1 .. n |-> IF i <= tx_size[h] THEN tx_buf[h][i] ELSE 0]
  IN [m EXCEPT !.txc = tx_size[h],
               !.rxc = m.rxs[h],
               !.rxb[h] = [i \in 1 .. m.rxs[h] |-> r],
               !.spdr = IF n > 0 THEN r ELSE @,
               !.wire = sent]

\* The thread from PROCESS_WAIT_WHILE(trx_queue_head == NULL) on, with a
\* transfer at the head, up to its next wait
StartTransfer(m, r) ==
  LET h == m.head
      m1 == [m EXCEPT !.flags[h] = SetBit(@, TRX_IN_TRANSMISSION),
                      !.ss[h] = FALSE,
                      !.started[h] = @ + 1,
                      !.order = RemoveFirst(@, h),
                      !.wire = <<>>,
                      !.polls = 0]
  IN IF HasBit(m.flags[h], TRX_USE_LLP)
       THEN Goto([TimerSet(TxByte(m1, tx_type[h], r)) EXCEPT
                    !.crc = crc16_update(crc16_update(Crc16Init, tx_type[h]),
                                         tx_size[h])],
                 "tx_size")
       ELSE Goto(EndTransfer(SimpleTransfer(m1, r),
                             "SPIM_TRX_COMPLETED_SUCCESSFULLY"),
                 "yield")

\* One run of the thread, from the wait at m.pt to the next wait; r is the
\* byte shifted in with the byte this run sends
SpimRun(m, r) ==
  CASE m.pt = "begin" -> Goto(m, "yield")
    [] m.pt \in {"yield", "wait_queue"} ->
         IF m.head = NULL THEN Goto(m, "wait_queue")
         ELSE StartTransfer(m, r)
    [] m.pt = "tx_size" ->
         IF m.head = NULL THEN HeadDeref(m)
         ELSE TxLoop([TimerSet(TxByte(m, tx_size[m.head], r)) EXCEPT
                        !.txc = 0])
    [] m.pt = "tx_payload" ->
         IF m.spdr # TYPE_RX_PROCESSING
           THEN Goto(EndTransfer(m, "SPIM_TRX_ERR_SLAVE_NOT_READY"), "yield")
         ELSE IF m.head = NULL THEN HeadDeref(m)
         ELSE LET b == tx_buf[m.head][m.txc + 1]
              IN TxLoop([TimerSet(TxByte(m, b, r)) EXCEPT
                           !.crc = crc16_update(@, b),
                           !.txc = (@ + 1) % Byte])
    [] m.pt = "tx_footer0" ->
         LET m1 == IF m.spdr # TYPE_RX_PROCESSING
                     THEN EndTransfer(m, "SPIM_TRX_ERR_SLAVE_NOT_READY")
                     ELSE m
         IN Goto(TimerSet(TxByte(m1, m.crc \div Byte, r)), "tx_footer1")
    [] m.pt = "tx_footer1" ->
         IF m.spdr # TYPE_RX_PROCESSING
           THEN Goto(EndTransfer(m, "SPIM_TRX_ERR_SLAVE_NOT_READY"), "yield")
           ELSE Goto(TimerSet(TxByte(m, m.crc % Byte, r)), "rx_wait")
    [] m.pt = "rx_wait" ->
         PollLoop([TimerSet(TxByte(m, 0, r)) EXCEPT !.polls = @ + 1])
    [] m.pt = "rx_poll" ->
         IF m.head = NULL THEN HeadDeref(m)
         ELSE PollLoop([TimerSet(TxByte(m, 0, r)) EXCEPT
                          !.flags[m.head] = decrement_rx_delay_remaining(@),
                          !.polls = @ + 1])
    [] m.pt = "rx_type" ->
         LET m1 == TimerSet(TxByte(m, 0, r))
         IN IF m.head = NULL THEN HeadDeref(m1)
            ELSE IF is_error_response_type(m.rxt[m.head])
              THEN Goto(EndTransfer(m1, "SPIM_TRX_ERR_SLAVE"), "yield")
            ELSE Goto([m1 EXCEPT !.crc = crc16_update(@, m.rxt[m.head])],
                      "rx_size")
    [] m.pt = "rx_size" ->
         LET size == m.spdr
             m1 == TimerSet(TxByte(m, 0, r))
         IN IF m.head = NULL THEN HeadDeref(m1)
            ELSE IF size > m.rxs[m.head]
              THEN Goto(EndTransfer(m1, "SPIM_TRX_ERR_RESPONSE_TOO_LARGE"),
                        "yield")
            ELSE RxLoop([m1 EXCEPT !.rxs[m.head] = size,
                                   !.crc = crc16_update(@, size),
                                   !.rxc = 0])
    [] m.pt = "rx_payload" ->
         IF m.head = NULL THEN HeadDeref(m)
         ELSE RxLoop([TimerSet(TxByte(m, 0, r)) EXCEPT
                        !.rxb[m.head][m.rxc + 1] = m.spdr,
                        !.crc = crc16_update(@, m.spdr),
                        !.rxc = (@ + 1) % Byte])
    [] m.pt = "rx_footer0" ->
         Goto([TimerSet(TxByte(m, 0, r)) EXCEPT !.rxcrc = m.spdr * Byte],
              "rx_footer1")
    [] m.pt = "rx_footer1" ->
         LET c == m.rxcrc + m.spdr
             m1 == [m EXCEPT !.rxcrc = c]
         IN IF m.crc # c
              THEN Goto(EndTransfer(m1, "SPIM_TRX_ERR_RESPONSE_CRC_FAILURE"),
                        "yield")
              ELSE Goto(EndTransfer(m1, "SPIM_TRX_COMPLETED_SUCCESSFULLY"),
                        "yield")
    [] OTHER -> m

\* TRUE when the thread, called with an event, finds the condition it waits
\* for false and returns at once
SpimStillWaiting(m) ==
  m.pt \notin {"begin", "yield", "wait_queue"} /\ ~m.timer

\* The variables of spi_master.c after a run of the thread
SpimCommit(m) ==
  /\ trx_queue_head' = m.head
  /\ trx_queue_tail' = m.tail
  /\ trx_flags' = m.flags
  /\ trx_ss' = m.ss
  /\ rx_type' = m.rxt
  /\ rx_size' = m.rxs
  /\ rx_buf' = m.rxb
  /\ spimPt' = m.pt
  /\ trx_timer' = m.timer
  /\ tx_counter' = m.txc
  /\ rx_counter' = m.rxc
  /\ crc' = m.crc
  /\ rx_crc' = m.rxcrc
  /\ spdr' = m.spdr
  /\ started' = m.started
  /\ terminated' = m.terminated
  /\ last_event' = m.last
  /\ stray' = m.stray
  /\ polls' = m.polls
  /\ wire' = m.wire
  /\ order' = m.order

\* process_execute hands an event to the thread of spim_trx_process, which
\* runs from the place it waits at to its next wait
SpimThread(r) ==
  /\ spim_events > 0
  /\ spimPt # "undefined"
  /\ spim_events' = spim_events - 1
  /\ \E m \in {IF SpimStillWaiting(Mst) THEN Mst ELSE SpimRun(Mst, r)} :
       SpimCommit(m)
  /\ UNCHANGED <<trx_next, trx_p, tx_type, tx_size, tx_buf, qret>>
  /\ UNCHANGED outsideSpi

\* The bytes a slave answers with, by the byte the run of the thread sends:
\* the padding or an error type while the request is sent; the padding, a
\* message type or an error type when the response may start; a size that
\* fits the buffer or not; then a payload byte or the byte of the CRC that
\* the master computes over the response
Answers ==
  LET c == SpimRun(Mst, TYPE_RX_PROCESSING).crc
  IN CASE SpimStillWaiting(Mst) \/ spimPt = "rx_footer1" -> {spdr}
       [] spimPt \in {"tx_footer1", "rx_wait", "rx_poll"} ->
            {TYPE_RX_PROCESSING, 1, SPI_TYPE_ERR_SLAVE_NOT_READY}
       [] spimPt = "rx_type" -> {0, 1, 2}
       [] spimPt \in {"rx_size", "rx_payload"} -> {1, c \div Byte}
       [] spimPt = "rx_footer0" -> {1, c % Byte}
       [] OTHER -> {TYPE_RX_PROCESSING, SPI_TYPE_ERR_SLAVE_NOT_READY}

\* PROCESS_THREAD(spim_trx_process) with a slave that answers anything
spim_trx_process ==
  \E r \in Answers :
    /\ SpimThread(r)
    /\ UNCHANGED spisVars

SpimNext ==
  \/ \E t \in Trxs : spim_trx_queue(t)
  \/ spim_post_event
  \/ trx_timer_expires
  \/ spim_trx_process

SpimSpec == SpimInit /\ [][SpimNext]_vars

\* ------------------------------------------------------------------------
\* spi_slave.c
\* ------------------------------------------------------------------------

\* enum spis_trx_status, in the order of its declaration
SpisStatuses ==
  <<"SPIS_TRX_READY", "SPIS_TRX_RECEIVING_SIZE", "SPIS_TRX_RECEIVING_PAYLOAD",
    "SPIS_TRX_RECEIVING_FOOTER0", "SPIS_TRX_RECEIVING_FOOTER1",
    "SPIS_TRX_WAITING_FOR_CALLBACK", "SPIS_TRX_SEND_RESPONSE_SIZE",
    "SPIS_TRX_SEND_RESPONSE_PAYLOAD", "SPIS_TRX_SEND_FOOTER0",
    "SPIS_TRX_SEND_FOOTER1", "SPIS_TRX_COMPLETED",
    "SPIS_TRX_WAITING_FOR_TRANSFER_TO_END",
    "SPIS_TRX_ABORTED_WHILE_WAITING_FOR_CALLBACK">>

\* The value of an enumerator
StatusOrd(st) == CHOOSE i \in 1 .. Len(SpisStatuses) : SpisStatuses[i] = st

\* The response type and the payloads the callback answers with
RESPONSE_TYPE == 17
ResponsePayload(n) == [i \in 1 .. n |-> 203 + i]

\* A payload argument that is the null pointer
NULL_PAYLOAD == <<-1>>

\* The data of spi_slave.c and its hardware after spis_init(p)
SpisReady ==
  /\ transfer_in_progress = FALSE
  /\ status = "SPIS_TRX_READY"
  /\ s_rx_type = 0
  /\ s_rx_size = 0
  /\ s_rx_buf = [i \in 0 .. SPIS_RX_BUF_SIZE - 1 |-> 0]
  /\ s_crc = 0
  /\ rx_received = 0
  /\ s_tx_buf = <<>>
  /\ tx_remaining = 0
  /\ error_code_remaining = 0
  /\ s_spdr = SPI_TYPE_PREPARING_RESPONSE
  /\ s_data = 0
  /\ spif = FALSE
  /\ ss_pin = TRUE
  /\ ss_changed = FALSE
  /\ frame = <<>>
  /\ s_events = <<>>
  /\ resp = NoResponse
  /\ overrun = FALSE

\* The state after spis_init(p)
SpisInit ==
  SchedInit /\ ProcInit /\ AdcIdle /\ SpimIdle /\ SpisReady /\ ClockIdle

\* What the functions and interrupt routines of spi_slave.c read and write
Slv ==
  [tip |-> transfer_in_progress, status |-> status, rxt |-> s_rx_type,
   rxs |-> s_rx_size, rxb |-> s_rx_buf, crc |-> s_crc, rxr |-> rx_received,
   txb |-> s_tx_buf, txr |-> tx_remaining, err |-> error_code_remaining,
   spdr |-> s_spdr, spif |-> spif, frame |-> frame, events |-> s_events,
   overrun |-> overrun, resp |-> resp]

\* end_transfer(response) of spi_slave.c
SpisEndTransfer(s, response) ==
  [s EXCEPT !.spdr = response,
            !.err = response,
            !.status = "SPIS_TRX_WAITING_FOR_TRANSFER_TO_END"]

\* process_post_event(callback, ev, PROCESS_DATA_NULL)
SpisPost(s, ev) == [s EXCEPT !.events = Append(@, ev)]

\* The case of the first footer byte without the comparison
SpisFooter0Unchecked(s, data) ==
  [s EXCEPT !.spdr = SPI_TYPE_PREPARING_RESPONSE,
            !.rxr = (@ + 1) % Byte,
            !.status = "SPIS_TRX_RECEIVING_FOOTER1"]

\* case SPIS_TRX_RECEIVING_FOOTER0 of the transfer-complete interrupt
SpisFooter0(s, data) ==
  IF s.crc \div Byte # data
    THEN SpisEndTransfer(s, SPI_TYPE_ERR_CRC_FAILURE)
    ELSE [s EXCEPT !.spdr = SPI_TYPE_PREPARING_RESPONSE,
                   !.rxr = (@ + 1) % Byte,
                   !.status = "SPIS_TRX_RECEIVING_FOOTER1"]

\* INTERRUPT(SPI_TC_VECT) with data the byte read from the data register;
\* the bytes of a request are added to the history of the frame
SpisTransferComplete(s0, data) ==
  LET s == [s0 EXCEPT !.spif = FALSE,
                      !.frame = IF StatusOrd(s0.status)
                                     <= StatusOrd("SPIS_TRX_RECEIVING_FOOTER1")
                                  THEN IF s0.status = "SPIS_TRX_READY"
                                         THEN <<data>> ELSE Append(@, data)
                                  ELSE @,
                      !.events = IF s0.status = "SPIS_TRX_READY"
                                   THEN <<>> ELSE @,
                      !.resp = IF s0.status = "SPIS_TRX_READY"
                                 THEN NoResponse ELSE @]
  IN CASE s.status = "SPIS_TRX_READY" ->
            [s EXCEPT !.spdr = SPI_TYPE_PREPARING_RESPONSE,
                      !.rxt = data,
                      !.rxr = 0,
                      !.crc = crc16_update(Crc16Init, data),
                      !.status = "SPIS_TRX_RECEIVING_SIZE"]
       [] s.status = "SPIS_TRX_RECEIVING_SIZE" ->
            IF data > SPIS_RX_BUF_SIZE
              THEN SpisEndTransfer([s EXCEPT !.rxs = data],
                                   SPI_TYPE_ERR_MESSAGE_TOO_LARGE)
              ELSE [s EXCEPT !.rxs = data,
                             !.spdr = SPI_TYPE_PREPARING_RESPONSE,
                             !.crc = crc16_update(@, data),
                             !.status = "SPIS_TRX_RECEIVING_PAYLOAD"]
       [] s.status = "SPIS_TRX_RECEIVING_PAYLOAD" ->
            IF s.rxr < s.rxs
              THEN [s EXCEPT !.spdr = SPI_TYPE_PREPARING_RESPONSE,
                             !.rxb = IF s.rxr \in DOMAIN @
                                       THEN [@ EXCEPT ![s.rxr] = data]
                                       ELSE @,
                             !.overrun = @ \/ s.rxr \notin DOMAIN s.rxb,
                             !.rxr = (@ + 1) % Byte,
                             !.crc = crc16_update(@, data)]
              ELSE SpisFooter0(s, data)
       [] s.status = "SPIS_TRX_RECEIVING_FOOTER0" -> SpisFooter0(s, data)
       [] s.status = "SPIS_TRX_RECEIVING_FOOTER1" ->
            IF s.crc % Byte # data
              THEN SpisEndTransfer(s, SPI_TYPE_ERR_CRC_FAILURE)
              ELSE SpisPost([s EXCEPT !.spdr = SPI_TYPE_PREPARING_RESPONSE,
                                      !.rxr = (@ + 1) % Byte,
                                      !.status =
                                        "SPIS_TRX_WAITING_FOR_CALLBACK"],
                            "SPIS_MESSAGE_RECEIVED")
       [] s.status = "SPIS_TRX_WAITING_FOR_CALLBACK" ->
            [s EXCEPT !.spdr = SPI_TYPE_PREPARING_RESPONSE]
       [] s.status = "SPIS_TRX_SEND_RESPONSE_SIZE" ->
            [s EXCEPT !.spdr = s.txr,
                      !.crc = crc16_update(@, s.txr),
                      !.status = IF s.txr > 0
                                   THEN "SPIS_TRX_SEND_RESPONSE_PAYLOAD"
                                   ELSE "SPIS_TRX_SEND_FOOTER0"]
       [] s.status = "SPIS_TRX_SEND_RESPONSE_PAYLOAD" ->
            [s EXCEPT !.spdr = Head(s.txb),
                      !.txb = Tail(@),
                      !.txr = (@ - 1) % Byte,
                      !.status = IF (s.txr - 1) % Byte = 0
                                   THEN "SPIS_TRX_SEND_FOOTER0" ELSE @]
       [] s.status = "SPIS_TRX_SEND_FOOTER0" ->
            [s EXCEPT !.spdr = s.crc \div Byte,
                      !.status = "SPIS_TRX_SEND_FOOTER1"]
       [] s.status = "SPIS_TRX_SEND_FOOTER1" ->
            [s EXCEPT !.spdr = s.crc % Byte,
                      !.status = "SPIS_TRX_COMPLETED"]
       [] s.status = "SPIS_TRX_COMPLETED" ->
            SpisPost(SpisEndTransfer(s, SPI_TYPE_PREPARING_RESPONSE),
                     "SPIS_RESPONSE_TRANSMITTED")
       [] OTHER -> [s EXCEPT !.spdr = s.err]

\* The pin-change interrupt with the test for a premature end reaching up to
\* and including SPIS_TRX_COMPLETED
SpisPinChangeThroughCompleted(s0, high) ==
  LET s == [s0 EXCEPT !.tip = ~high]
  IN IF ~high THEN s
     ELSE LET s1 == [s EXCEPT !.spdr = SPI_TYPE_PREPARING_RESPONSE]
              s2 ==
                IF /\ StatusOrd(s.status)
                        >= StatusOrd("SPIS_TRX_WAITING_FOR_CALLBACK")
                   /\ StatusOrd(s.status) <= StatusOrd("SPIS_TRX_COMPLETED")
                  THEN LET s3 == SpisPost(s1, "SPIS_RESPONSE_ERROR")
                       IN IF s.status = "SPIS_TRX_WAITING_FOR_CALLBACK"
                            THEN [s3 EXCEPT
                                    !.spdr = SPI_TYPE_ERR_SLAVE_NOT_READY,
                                    !.err = SPI_TYPE_ERR_SLAVE_NOT_READY,
                                    !.status =
                                "SPIS_TRX_ABORTED_WHILE_WAITING_FOR_CALLBACK"]
                            ELSE [s3 EXCEPT !.status = "SPIS_TRX_READY"]
                ELSE IF s.status
                          # "SPIS_TRX_ABORTED_WHILE_WAITING_FOR_CALLBACK"
                  THEN [s1 EXCEPT !.status = "SPIS_TRX_READY"]
                ELSE s1
          IN [s2 EXCEPT !.spif = FALSE]

\* INTERRUPT(PC_INTERRUPT_VECT(SPI_SS_PIN)) with the level of the pin
SpisPinChange(s0, high) ==
  LET s == [s0 EXCEPT !.tip = ~high]
  IN IF ~high THEN s
     ELSE LET s1 == [s EXCEPT !.spdr = SPI_TYPE_PREPARING_RESPONSE]
              s2 ==
                IF /\ StatusOrd(s.status)
                        >= StatusOrd("SPIS_TRX_WAITING_FOR_CALLBACK")
                   /\ StatusOrd(s.status) < StatusOrd("SPIS_TRX_COMPLETED")
                  THEN LET s3 == SpisPost(s1, "SPIS_RESPONSE_ERROR")
                       IN IF s.status = "SPIS_TRX_WAITING_FOR_CALLBACK"
                            THEN [s3 EXCEPT
                                    !.spdr = SPI_TYPE_ERR_SLAVE_NOT_READY,
                                    !.err = SPI_TYPE_ERR_SLAVE_NOT_READY,
                                    !.status =
                                "SPIS_TRX_ABORTED_WHILE_WAITING_FOR_CALLBACK"]
                            ELSE [s3 EXCEPT !.status = "SPIS_TRX_READY"]
                ELSE IF s.status
                          # "SPIS_TRX_ABORTED_WHILE_WAITING_FOR_CALLBACK"
                  THEN [s1 EXCEPT !.status = "SPIS_TRX_READY"]
                ELSE s1
          IN [s2 EXCEPT !.spif = FALSE]

\* spis_send_response without the test of the payload pointer
SpisSendResponseAnyPayload(s, type, payload, size) ==
  LET Call(returned) == [ret |-> returned, type |-> type,
                         payload |-> payload, size |-> size]
  IN IF s.status # "SPIS_TRX_WAITING_FOR_CALLBACK"
       THEN LET s1 ==
                  IF s.status = "SPIS_TRX_ABORTED_WHILE_WAITING_FOR_CALLBACK"
                    THEN IF s.tip
                           THEN [s EXCEPT !.status =
                                   "SPIS_TRX_WAITING_FOR_TRANSFER_TO_END"]
                           ELSE [s EXCEPT
                                   !.spdr = SPI_TYPE_PREPARING_RESPONSE,
                                   !.status = "SPIS_TRX_READY"]
                    ELSE s
            IN [s1 EXCEPT
                  !.spif = FALSE,
                  !.resp = Call("SPIS_SEND_RESPONSE_NO_TRX_IN_PROGRESS")]
     ELSE IF type >= SPI_ERR_TYPE_MIN
       THEN [SpisEndTransfer(s, SPI_TYPE_ERR_SLAVE_RESPONSE_INVALID) EXCEPT
               !.resp = Call("SPIS_SEND_RESPONSE_INVALID_TYPE")]
     ELSE [s EXCEPT !.spdr = type,
                    !.txb = IF payload = NULL_PAYLOAD THEN <<>> ELSE payload,
                    !.txr = size,
                    !.status = "SPIS_TRX_SEND_RESPONSE_SIZE",
                    !.spif = FALSE,
                    !.resp = Call("SPIS_SEND_RESPONSE_OK")]

\* spis_send_response(type, payload, size); payload is NULL or the bytes of
\* the buffer.  The call and what it returns are kept in resp.
SpisSendResponse(s, type, payload, size) ==
  LET Call(returned) == [ret |-> returned, type |-> type,
                         payload |-> payload, size |-> size]
  IN IF s.status # "SPIS_TRX_WAITING_FOR_CALLBACK"
       THEN LET s1 ==
                  IF s.status = "SPIS_TRX_ABORTED_WHILE_WAITING_FOR_CALLBACK"
                    THEN IF s.tip
                           THEN [s EXCEPT !.status =
                                   "SPIS_TRX_WAITING_FOR_TRANSFER_TO_END"]
                           ELSE [s EXCEPT
                                   !.spdr = SPI_TYPE_PREPARING_RESPONSE,
                                   !.status = "SPIS_TRX_READY"]
                    ELSE s
            IN [s1 EXCEPT
                  !.spif = FALSE,
                  !.resp = Call("SPIS_SEND_RESPONSE_NO_TRX_IN_PROGRESS")]
     ELSE IF type >= SPI_ERR_TYPE_MIN
       THEN [SpisEndTransfer(s, SPI_TYPE_ERR_SLAVE_RESPONSE_INVALID) EXCEPT
               !.resp = Call("SPIS_SEND_RESPONSE_INVALID_TYPE")]
     ELSE IF size > 0 /\ payload = NULL_PAYLOAD
       THEN [SpisEndTransfer(s, SPI_TYPE_ERR_SLAVE_RESPONSE_INVALID) EXCEPT
               !.resp = Call("SPIS_SEND_RESPONSE_PAYLOAD_IS_NULL")]
     ELSE [s EXCEPT !.spdr = type,
                    !.txb = IF payload = NULL_PAYLOAD THEN <<>> ELSE payload,
                    !.txr = size,
                    !.status = "SPIS_TRX_SEND_RESPONSE_SIZE",
                    !.spif = FALSE,
                    !.resp = Call("SPIS_SEND_RESPONSE_OK")]

\* The variables of spi_slave.c after a function or an interrupt routine
SpisCommit(s) ==
  /\ transfer_in_progress' = s.tip
  /\ status' = s.status
  /\ s_rx_type' = s.rxt
  /\ s_rx_size' = s.rxs
  /\ s_rx_buf' = s.rxb
  /\ s_crc' = s.crc
  /\ rx_received' = s.rxr
  /\ s_tx_buf' = s.txb
  /\ tx_remaining' = s.txr
  /\ error_code_remaining' = s.err
  /\ s_spdr' = s.spdr
  /\ spif' = s.spif
  /\ frame' = s.frame
  /\ s_events' = s.events
  /\ resp' = s.resp
  /\ overrun' = s.overrun

\* The transfer-complete interrupt is served
SPI_TC_VECT ==
  /\ spif
  /\ \E s \in {SpisTransferComplete(Slv, s_data)} : SpisCommit(s)
  /\ UNCHANGED <<s_data, ss_pin, ss_changed>>
  /\ UNCHANGED <<spimVars, outsideSpi>>

\* The pin-change interrupt of the slave select pin is served
SPI_SS_VECT ==
  /\ ss_changed
  /\ ss_changed' = FALSE
  /\ \E s \in {SpisPinChange(Slv, ss_pin)} : SpisCommit(s)
  /\ UNCHANGED <<s_data, ss_pin>>
  /\ UNCHANGED <<spimVars, outsideSpi>>

\* The callback process calls spis_send_response
spis_send_response(type, payload, size) ==
  /\ \E s \in {SpisSendResponse(Slv, type, payload, size)} : SpisCommit(s)
  /\ UNCHANGED <<s_data, ss_pin, ss_changed>>
  /\ UNCHANGED <<spimVars, outsideSpi>>

\* The calls of spis_send_response the callback makes
SpisResponses ==
  {<<RESPONSE_TYPE, ResponsePayload(n), n>> : n \in 0 .. SPIS_RX_BUF_SIZE}
    \cup {<<SPI_ERR_TYPE_MIN, ResponsePayload(0), 0>>,
          <<RESPONSE_TYPE, NULL_PAYLOAD, 1>>}

\* The master moves the slave select line
spis_ss_moves ==
  /\ ~ss_changed
  /\ ss_pin' = ~ss_pin
  /\ ss_changed' = TRUE
  /\ UNCHANGED <<transfer_in_progress, status, s_rx_type, s_rx_size, s_rx_buf,
                 s_crc, rx_received, s_tx_buf, tx_remaining,
                 error_code_remaining, s_spdr, s_data, spif, frame, s_events,
                 resp, overrun>>
  /\ UNCHANGED <<spimVars, outsideSpi>>

\* The bytes a master sends, by the state of the slave: a message type; a
\* size that fits the buffer or not; a payload byte; the byte of the CRC
\* that the slave has computed or another byte; a dummy byte
SpisBytes ==
  CASE status = "SPIS_TRX_READY" -> {16}
    [] status = "SPIS_TRX_RECEIVING_SIZE" -> 0 .. SPIS_RX_BUF_SIZE + 1
    [] status = "SPIS_TRX_RECEIVING_PAYLOAD" /\ rx_received < s_rx_size ->
         {170}
    [] status \in {"SPIS_TRX_RECEIVING_PAYLOAD",
                   "SPIS_TRX_RECEIVING_FOOTER0"} -> {1, s_crc \div Byte}
    [] status = "SPIS_TRX_RECEIVING_FOOTER1" -> {1, s_crc % Byte}
    [] OTHER -> {0}

\* The master clocks a byte through while it holds the slave select line low
spis_byte_arrives(b) ==
  /\ ~ss_pin
  /\ ~ss_changed
  /\ ~spif
  /\ s_data' = b
  /\ spif' = TRUE
  /\ UNCHANGED <<transfer_in_progress, status, s_rx_type, s_rx_size, s_rx_buf,
                 s_crc, rx_received, s_tx_buf, tx_remaining,
                 error_code_remaining, s_spdr, ss_pin, ss_changed, frame,
                 s_events, resp, overrun>>
  /\ UNCHANGED <<spimVars, outsideSpi>>

SpisNext ==
  \/ SPI_TC_VECT
  \/ SPI_SS_VECT
  \/ \E r \in SpisResponses : spis_send_response(r[1], r[2], r[3])
  \/ spis_ss_moves
  \/ \E b \in SpisBytes : spis_byte_arrives(b)

SpisSpec == SpisInit /\ [][SpisNext]_vars

\* ------------------------------------------------------------------------
\* The master and the slave on one SPI bus
\* ------------------------------------------------------------------------

RECURSIVE Count(_, _)
\* The number of times x occurs in seq
Count(seq, x) ==
  IF seq = <<>> THEN 0
  ELSE (IF Head(seq) = x THEN 1 ELSE 0) + Count(Tail(seq), x)

\* The state after spim_init and spis_init; every transfer is set up with
\* spim_trx_set_llp
SpiLinkInit ==
  /\ SchedInit
  /\ ProcInit
  /\ AdcIdle
  /\ SpimReady
  /\ SpisReady
  /\ \A t \in Trxs : HasBit(trx_flags[t], TRX_USE_LLP)
  /\ ClockIdle

\* A run of the thread of spim_trx_process on the bus: the byte it sends is
\* shifted into the slave while the byte the slave has loaded is shifted
\* out, and the slave select pin follows the lines the master drives.  The
\* slave has served its interrupts before the master goes on.
link_trx_process ==
  /\ ~spif
  /\ ~ss_changed
  /\ SpimThread(s_spdr)
  /\ s_data' = IF wire' # wire THEN wire'[Len(wire')] ELSE s_data
  /\ spif' = (wire' # wire)
  /\ ss_pin' = (\A t \in Trxs : trx_ss'[t])
  /\ ss_changed' = (ss_pin' # ss_pin)
  /\ UNCHANGED <<transfer_in_progress, status, s_rx_type, s_rx_size, s_rx_buf,
                 s_crc, rx_received, s_tx_buf, tx_remaining,
                 error_code_remaining, s_spdr, frame, s_events, resp,
                 overrun>>

\* The callback process answers the message it was told of
link_callback ==
  /\ Count(s_events, "SPIS_MESSAGE_RECEIVED") = 1
  /\ resp = NoResponse
  /\ \E r \in SpisResponses : spis_send_response(r[1], r[2], r[3])

SpiLinkNext ==
  \/ \E t \in Trxs : spim_trx_queue(t)
  \/ spim_post_event
  \/ trx_timer_expires
  \/ link_trx_process
  \/ SPI_TC_VECT
  \/ SPI_SS_VECT
  \/ link_callback

SpiLinkSpec == SpiLinkInit /\ [][SpiLinkNext]_vars

\* ------------------------------------------------------------------------
\* Specifications
\* ------------------------------------------------------------------------

Init == SchedInit /\ ProcInit /\ AdcIdle /\ SpiIdle /\ ClockIdle

SchedSpec == Init /\ [][SchedNext]_vars

\* The scheduler under the conditions of progress: the timer keeps ticking
\* and its compare interrupt is served; the main loop keeps calling
\* sched_exec, whose steps only wait while an interrupt is served and are
\* therefore taken when they can be taken again and again.  The calls of
\* sched_schedule are the application's and happen or not.
SchedFairness ==
  /\ WF_vars(TimerTick)
  /\ WF_vars(TMR_INTERRUPT)
  /\ SF_vars(sched_exec_load)
  /\ SF_vars(sched_exec_pop)
  /\ SF_vars(sched_exec_free)

SchedLiveSpec == Init /\ [][SchedNext]_vars /\ SchedFairness

ProcSpec == Init /\ [][ProcNext]_vars

ClockSpec == Init /\ [][ClockNext]_vars

AdcSpec == AdcSysInit /\ [][AdcNext]_vars

\* The ADC engine with measurements that are cancelled: every measurement
\* takes one conversion and is never skipped.
AdcCancelInit ==
  /\ AdcSysInit
  /\ oversamples = [a \in Adcs |-> 1]
  /\ skip = [a \in Adcs |-> 0]
  /\ oversamples_remaining = [a \in Adcs |-> 0]

AdcCancelNext ==
  \/ AdcNext
  \/ \E adc \in Adcs : adc_disable(adc)

AdcCancelSpec == AdcCancelInit /\ [][AdcCancelNext]_vars

\* The ADC engine with measurements that are cancelled, under the
\* conditions of progress: the converter runs freely, so that the interrupt
\* routine keeps being served, and the main loop keeps calling
\* process_execute, so that every step of the foreground that can be taken
\* is taken.  left_align_value is taken to return.  The calls of adc_enable
\* and adc_disable are the application's and happen or not.
AdcLiveFairness ==
  /\ WF_vars(ADC_CONVERSION_COMPLETE)
  /\ WF_vars(process_execute_read)
  /\ WF_vars(process_execute_empty)
  /\ WF_vars(adc_execute_dispatch)
  /\ WF_vars(handle_completed_conversion_test)
  /\ WF_vars(handle_completed_conversion_latch)
  /\ WF_vars(left_align_value_return)
  /\ WF_vars(queue_next_next_adc_step)

AdcLiveSpec == AdcCancelInit /\ [][AdcCancelNext]_vars /\ AdcLiveFairness

\* ------------------------------------------------------------------------
\* Properties of the scheduler
\* ------------------------------------------------------------------------

AllLists == FreeList \o WaitingList \o ReadyList

\* The slots of seq are exactly the set S, each once
IsArrangementOf(seq, S) == Len(seq) = Cardinality(S) /\ Range(seq) = S

\* C1 as stated: in every reachable state each of the SCHED_TASKS_MAX slots
\* is on exactly one of the free, waiting and ready lists.
C1_EverySlotOnOneList == IsArrangementOf(AllLists, Slots)

\* C1 as amended: each slot is on exactly one of the three lists, except for
\* the slot whose task sched_exec is executing: from its removal from the
\* ready queue until the callback has returned that slot is on no list, and
\* every other slot is on exactly one.
C1_SlotsPartitioned ==
  IF execPc = "running"
    THEN IsArrangementOf(AllLists, Slots \ {first})
    ELSE IsArrangementOf(AllLists, Slots)

\* A task is executing, its slot is on no list, and its callback has just
\* scheduled a delayed task into the last free slot
C1_Witness ==
  /\ execPc = "running"
  /\ first \notin Range(AllLists)
  /\ ret = "SCHED_OK"
  /\ WaitingList # <<>>
  /\ FreeList = <<>>

\* C2: sched_exec runs the delayed tasks in deadline order, tasks of equal
\* deadline in the order they were scheduled: the task it takes from the
\* ready queue is the first of the accepted delayed tasks in that order.
C2_ExecRespectsDeadlines ==
  [][(execPc = "loaded" /\ execPc' = "running" /\ first \in Range(ideal))
       => first = Head(ideal)]_vars

\* C3: a task scheduled with ticks > 0 is moved from the waiting list to the
\* ready queue only after the timer has advanced by ticks since the call.
C3_NeverReleasedEarly ==
  [][\A s \in Slots :
       (s \in Range(WaitingList) /\ s \in Range(ReadyList')) => rem[s] = 0]_vars

\* C4: sched_schedule returns SCHED_QUEUE_FULL exactly when the free list is
\* empty at the call and then changes neither the lists nor the compare
\* register nor next_interrupt_tick; when sched_exec has returned a slot to
\* the free list, the free list is not empty, so the next call succeeds.
C4_QueueFullIffNoFreeSlot ==
  [][/\ (ret' \in {"SCHED_OK", "SCHED_QUEUE_FULL"})
          => /\ (ret' = "SCHED_QUEUE_FULL") <=> (FreeList = <<>>)
             /\ (ret' = "SCHED_QUEUE_FULL")
                  => UNCHANGED <<next, free_head, waiting_head, ready_head,
                                 ready_tail, ocr, next_interrupt_tick>>
             /\ (ret' = "SCHED_OK") => Len(FreeList') = Len(FreeList) - 1
     /\ (ret' = "SCHED_TASK_EXECUTED") => FreeList' # <<>>]_vars

\* sched_schedule has refused a task while tasks are waiting and ready
C4_Witness ==
  /\ ret = "SCHED_QUEUE_FULL"
  /\ FreeList = <<>>
  /\ WaitingList # <<>>
  /\ ReadyList # <<>>

\* The current tick as sched_schedule derives it: next_interrupt_tick minus
\* the timer ticks left until the compare match
SchedCurrentTick ==
  (next_interrupt_tick - ((ocr - cntr) % TimerMod)) % TickMod

\* The distance of the deadline of slot s from the current tick
DeadlineDistance(s) == (tick[s] - SchedCurrentTick) % TickMod

\* The waiting list is in the order of the deadlines
WaitingOrdered ==
  \A i \in 1 .. Len(WaitingList) - 1 :
    DeadlineDistance(WaitingList[i]) <= DeadlineDistance(WaitingList[i + 1])

\* C24: outside the critical sections and the interrupt routine, the waiting
\* list is ordered by deadline, as tick distance from the current tick (the
\* first half of the claim; the second half says that next_interrupt_tick
\* equals the deadline of the head whenever the list is not empty).
C24_WaitingOrdered == ~pending => WaitingOrdered

\* The tick values v of the nodes as they are when every tick value of the
\* run, starting with next_interrupt_tick after sched_init, is k larger
ShiftTicks(v, k) == [s \in Slots |-> (v[s] + k) % TickMod]

\* The nodes the compare interrupt releases when it runs now, by the first
\* node it leaves on the waiting list, with every tick value k larger
ReleasedUpTo(k) ==
  Release(next, ShiftTicks(tick, k), waiting_head, ready_head, ready_tail,
          (next_interrupt_tick + k) % TickMod).whead

\* The node behind which sched_schedule(ticks) inserts when it is called now,
\* with every tick value k larger
InsertedBehind(k, ticks) ==
  InsertAfterIn(ShiftTicks(tick, k), NULL, waiting_head,
                (SchedCurrentTick + k) % TickMod, ticks)

\* C25: the scheduler does not depend on where the tick values are relative
\* to the wrap of the counter: in every reachable state, the position at
\* which sched_schedule inserts and the tasks the compare interrupt releases
\* are the same when every tick value, next_interrupt_tick included, is
\* larger by the same amount.
C25_WrapIndependent ==
  \A k \in 0 .. TickMod - 1 :
    /\ \A ticks \in 1 .. MaxTicks :
         InsertedBehind(k, ticks) = InsertedBehind(0, ticks)
    /\ pending => ReleasedUpTo(k) = ReleasedUpTo(0)

\* The half of C25 that is about the insertion
InsertionWrapIndependent ==
  \A k \in 0 .. TickMod - 1 :
    \A ticks \in 1 .. MaxTicks :
      InsertedBehind(k, ticks) = InsertedBehind(0, ticks)

\* Where slot s is: on the free list, on the waiting list, on the ready
\* queue, or with sched_exec while its callback runs
SlotPhase(s) ==
  IF s \in Range(FreeList) THEN "free"
  ELSE IF s \in Range(WaitingList) THEN "waiting"
  ELSE IF s \in Range(ReadyList) THEN "ready"
  ELSE IF first = s /\ execPc = "running" THEN "running"
  ELSE "lost"

\* The way of a task from sched_schedule to the end of sched_exec
SlotCycle ==
  {<<"free", "waiting">>, <<"free", "ready">>, <<"waiting", "ready">>,
   <<"ready", "running">>, <<"running", "free">>}

\* C29: provided the timer keeps ticking and the foreground keeps calling
\* sched_exec, every task accepted by sched_schedule is eventually executed
\* and its slot returned to the free list, whatever its delay; on its way
\* from acceptance to the free list it is executed exactly once, since a
\* slot only moves along free, waiting (for a delay that is not 0), ready,
\* running, free.
C29_AcceptedIsExecutedOnce ==
  /\ [][\A s \in Slots :
          SlotPhase(s)' # SlotPhase(s)
            => <<SlotPhase(s), SlotPhase(s)'>> \in SlotCycle]_vars
  /\ \A s \in Slots : (SlotPhase(s) # "free") ~> (SlotPhase(s) = "free")

\* A task whose delay is larger than the range of the timer was executed
\* and its slot has just been put back on the free list
C29_Witness ==
  /\ ret = "SCHED_TASK_EXECUTED"
  /\ free_head # NULL
  /\ req[free_head] > TMR_REG_MAX

\* ------------------------------------------------------------------------
\* Properties of the process framework
\* ------------------------------------------------------------------------

RECURSIVE WalkProcs(_, _)
\* The process list, walked for at most fuel links
WalkProcs(h, fuel) ==
  IF h = NULL \/ fuel = 0 THEN <<>>
  ELSE <<h>> \o WalkProcs(pnext[h], fuel - 1)

ProcessList == WalkProcs(process_list_head, NumProcs + 1)

\* C5: the ring never holds more than PROCESS_CONF_EVENT_QUEUE_SIZE events;
\* a post is refused with QUEUE_FULL exactly when the count equals the
\* capacity (a refusal happens only at full count, and no post is accepted
\* at full count) and then changes neither the count nor the head index nor
\* a stored event; when process_execute has removed an event there is room
\* for the next post.
C5_RingBounded ==
  [][/\ event_queue_count' <= PROCESS_CONF_EVENT_QUEUE_SIZE
     /\ (pret' = "PROCESS_POST_EVENT_QUEUE_FULL")
          => /\ event_queue_count = PROCESS_CONF_EVENT_QUEUE_SIZE
             /\ UNCHANGED <<event_queue_count, event_queue_first,
                            event_queue>>
     /\ (event_queue_count' > event_queue_count)
          => /\ event_queue_count < PROCESS_CONF_EVENT_QUEUE_SIZE
             /\ event_queue_count' = event_queue_count + 1
     /\ (fgPc = "idle" /\ fgPc' = "post_write")
          => event_queue_count' = event_queue_count + 1
     /\ (fgPc = "exec_dec" /\ fgPc' = "idle")
          => /\ event_queue_count' = event_queue_count - 1
             /\ event_queue_count' < PROCESS_CONF_EVENT_QUEUE_SIZE]_vars

\* A post has been refused on a full ring whose oldest event is not in slot
\* 0: events have been dispatched before and the ring has wrapped around
C5_Witness ==
  /\ event_queue_count = PROCESS_CONF_EVENT_QUEUE_SIZE
  /\ pret = "PROCESS_POST_EVENT_QUEUE_FULL"
  /\ event_queue_first # 0

\* C6: the events process_execute dispatches are the accepted events, each
\* once, with the target, kind and data it was posted with, in the order of
\* their acceptance (hence in posting order for the posts of one context):
\* the event taken from the ring is the oldest accepted event that has not
\* been dispatched yet, and the ring counts exactly those.
C6_DispatchedAsPosted ==
  [][/\ (fgPc = "exec_dec" /\ fgPc' = "idle")
          => /\ shadow # <<>>
             /\ e = Head(shadow)
     /\ Len(shadow') = event_queue_count']_vars

\* An interrupt has posted an event between a foreground post reserving its
\* slot and writing it, after earlier events have been dispatched
C6_Witness ==
  /\ fgPc = "post_write"
  /\ event_queue[idx] = NoEvent
  /\ Len(shadow) >= 2
  /\ shadow[Len(shadow)].ev = "EV_ISR"
  /\ shadow[Len(shadow) - 1] = callE
  /\ event_queue_first # 0

\* C7: process_start(p) terminates for every content of the process list
\* (inside process_list_contains the foreground can always take a step that
\* changes its state); it returns ALREADY_STARTED and changes nothing when p
\* is in the list and links p otherwise, and no process is in the list twice.
C7_StartTerminates ==
  /\ [](fgPc = "start_contains"
          => ENABLED <<process_list_contains_step>>_vars)
  /\ [][(fgPc = "start_contains" /\ fgPc' # "start_contains")
          => /\ IF callP \in Range(ProcessList)
                  THEN /\ pret' = "PROCESS_START_ALREADY_STARTED"
                       /\ UNCHANGED <<process_list_head, pnext>>
                  ELSE callP \in Range(ProcessList')
             /\ Len(ProcessList') = Cardinality(Range(ProcessList'))]_vars

\* C8: process_stop(p) terminates for every content of the process list; it
\* unlinks p and returns OK when p is in the list, leaving the other
\* processes linked in the same order, and returns NOT_STARTED with the list
\* unchanged when it is not.
C8_StopTerminates ==
  /\ [](fgPc = "stop_loop" => ENABLED <<process_stop_step>>_vars)
  /\ [][(fgPc = "stop_loop" /\ fgPc' # "stop_loop")
          => IF callP \in Range(ProcessList)
               THEN /\ pret' = "PROCESS_STOP_OK"
                    /\ ProcessList' =
                         SelectSeq(ProcessList, LAMBDA q : q # callP)
               ELSE /\ pret' = "PROCESS_STOP_NOT_STARTED"
                    /\ UNCHANGED <<process_list_head, pnext>>]_vars

\* C9: whenever process_start(p) returns OK, an INIT event for p has been
\* enqueued, whatever the fill level of the ring at the time of the call
\* (the INIT event is then the first event posted to the started process).
C9_StartPostsInit ==
  [][(pret' = "PROCESS_START_OK" /\ fgPc # "idle")
       => \E i \in 1 .. Len(shadow') :
            shadow'[i] = Event(callP, "PROCESS_EVENT_INIT", 0)]_vars

\* process_execute calls the thread of the event it has copied from the ring
ThreadInvoked == fgPc = "exec_dec" /\ fgPc' = "idle"

\* C30: once process_stop(p) has returned OK, process_execute does not call
\* the thread of p.  The INIT event of p is posted by process_start(p) after
\* p has been linked, and only process_stop(p) returning OK unlinks p: when
\* the INIT event of p is dispatched, p is still on the process list.
C30_StoppedIsNotInvoked ==
  [][(ThreadInvoked /\ e.ev = "PROCESS_EVENT_INIT")
       => e.p \in Range(ProcessList)]_vars

\* ------------------------------------------------------------------------
\* Properties of the ADC engine
\* ------------------------------------------------------------------------

\* C10: ADC_MEASUREMENT_COMPLETED is posted once per oversamples handled
\* conversions of a measurement, the k-th completion when exactly k times
\* oversamples conversions of it have been handled: after h handled
\* conversions the completions posted number h divided by oversamples,
\* rounded down.
C10_CompletionEveryOversamples ==
  \A a \in Adcs :
    oversamples[a] > 0 => completed[a] = handled[a] \div oversamples[a]

RECURSIVE Log2(_)
\* The base-2 logarithm of a power of two
Log2(n) == IF n <= 1 THEN 0 ELSE 1 + Log2(n \div 2)

\* C11: when a measurement of a constant raw sample has completed, the
\* latched value is RawSample times oversamples, shifted left by
\* max(0, 6 - log2(oversamples)) bits, with no bit lost.  (While
\* handle_completed_conversion is at work on a measurement its value is
\* between two completions.)
C11_LatchedValueLeftAligned ==
  \A a \in Adcs :
    (completed[a] > 0 /\ ~(hadc = a /\ fgPc \in {"adc_latch", "adc_align"}))
      => value[a] =
           RawSample * oversamples[a]
             * 2 ^ (IF Log2(oversamples[a]) < 6
                      THEN 6 - Log2(oversamples[a]) ELSE 0)

\* The list of enabled measurements, from adcs along adc->next
AdcList == Walk(anext, adcs, NumAdcs + 1)

\* C12: after any sequence of adc_enable and adc_disable calls the digital
\* input of a channel is disabled if and only if an enabled measurement in
\* the ADC list refers to the channel.
C12_DigitalInputOffIffMeasured ==
  \A c \in AdcChannels :
    c \in didr <=>
      \E i \in 1 .. Len(AdcList) :
        enabled[AdcList[i]] /\ channel[AdcList[i]] = c

\* C13: a measurement that is disabled gets no sample and no event: no step
\* adds to its accumulator, posts EVENT_ADC_CONVERSION_COMPLETE for it or
\* posts ADC_MEASUREMENT_COMPLETED for it, whatever the pipeline and the ring
\* held when it was disabled.
C13_DisabledGetsNothing ==
  [][\A a \in Adcs :
       ~enabled[a] =>
         /\ next_value'[a] = next_value[a]
         /\ completed'[a] = completed[a]
         /\ Len(shadow') > Len(shadow) =>
              ~ /\ shadow'[Len(shadow')].data = a
                /\ shadow'[Len(shadow')].ev \in
                     {"EVENT_ADC_CONVERSION_COMPLETE",
                      "ADC_MEASUREMENT_COMPLETED"}]_vars

\* A measurement was disabled while it was the current one of the pipeline
\* and while a conversion event of it was in the ring; that event is now
\* handled, with the counter at 0
C13_Witness ==
  \E a \in Adcs :
    /\ ndisable > 0
    /\ ~enabled[a]
    /\ fgPc = "adc_handle"
    /\ hadc = a
    /\ oversamples_remaining[a] = 0
    /\ next_value[a] > 0
    /\ current_adc = a

\* The channel the interrupt writes to the MUX for the measurement a
MuxChannelOf(a) == IF a = NULL THEN ADC_CHANNEL_GND ELSE channel[a]

\* C27: the pipeline moves only by the shift of the conversion-complete
\* interrupt, one position at a time (current <- next, next <- next_next,
\* next_next <- NULL), and by the foreground filling an empty next_next; the
\* interrupt writes the channel of next_next to the MUX, so that the MUX holds
\* the channel of next_adc (written by the last interrupt) and held the
\* channel of current_adc one interrupt before; and a sample is added only
\* by the interrupt and only to the accumulator of current_adc, the
\* measurement whose channel was written to the MUX two interrupts earlier.
C27_PipelineShiftsByOne ==
  /\ [](mux = MuxChannelOf(next_adc))
  /\ [][/\ (current_adc' # current_adc \/ next_adc' # next_adc
              \/ mux' # mux \/ nconv' # nconv
              \/ (next_next_adc # NULL /\ next_next_adc' # next_next_adc)) =>
             /\ current_adc' = next_adc
             /\ next_adc' = next_next_adc
             /\ next_next_adc' = NULL
             /\ mux' = MuxChannelOf(next_next_adc)
             /\ MuxChannelOf(current_adc') = mux
        /\ (next_next_adc = NULL /\ next_next_adc' # NULL) =>
             /\ fgPc = "adc_queue"
             /\ UNCHANGED <<current_adc, next_adc, mux, next_value>>
        /\ \A a \in Adcs :
             next_value'[a] # next_value[a] /\ next_value'[a] # 0 =>
               /\ a = current_adc
               /\ next_value'[a] = (next_value[a] + RawSample) % Word16
               /\ nconv' = nconv + 1
        /\ nconv' # nconv =>
             /\ current_adc # NULL
             /\ next_value'[current_adc]
                  = (next_value[current_adc] + RawSample) % Word16]_vars

\* The pipeline is full with measurements of two channels, the foreground
\* has refilled next_next_adc, and a sample has been added
C27_Witness ==
  /\ nconv > 0
  /\ current_adc # NULL
  /\ next_adc # NULL
  /\ next_next_adc # NULL
  /\ channel[current_adc] # channel[next_adc]
  /\ next_value[next_next_adc] > 0

\* ------------------------------------------------------------------------
\* Properties of the ADC engine: progress
\* ------------------------------------------------------------------------

\* A conversion of measurement a has been sampled by the interrupt routine
\* and handled by adc_process more than k times
SampledBeyond(a, k) == handled[a] > k

\* C28: as long as conversions keep completing and the foreground keeps
\* running process_execute, a measurement that stays enabled is selected,
\* sampled and handled again, whatever is enabled or disabled meanwhile.
\* The obligation ends when the measurement is disabled or when the bound
\* of the model on the number of conversions is reached.
C28_EnabledKeepsBeingSampled ==
  \A a \in Adcs : \A k \in 0 .. MaxConversions - 1 :
    (enabled[a] /\ handled[a] = k /\ nconv < MaxConversions)
      ~> (~enabled[a] \/ SampledBeyond(a, k) \/ nconv = MaxConversions)

\* ------------------------------------------------------------------------
\* Properties of the SPI master
\* ------------------------------------------------------------------------

\* The queue of transfers, from trx_queue_head along trx->next
TrxQueue == Walk(trx_next, trx_queue_head, NumTrx + 1)

\* TRUE when the thread of spim_trx_process is between two transfers
SpimBetweenTransfers == spimPt \in {"begin", "yield", "wait_queue"}

\* C14: a transfer taken from the head of the queue is terminated exactly
\* once.  The state machine exchanges bytes and terminates only with a
\* transfer in transmission at the head (stray counts what it does without
\* one) and never reads through an empty queue; a transfer has one terminal
\* event per start, less the one that is due while it is in transmission;
\* the transfer in transmission is the head and its slave select is low,
\* any other has its slave select high; a transfer that is not queued is
\* not in the queue; and the thread is inside a transfer only while the
\* head is in transmission.
C14_TerminatedExactlyOnce ==
  /\ spimPt # "undefined"
  /\ stray = 0
  /\ \A t \in Trxs :
       /\ terminated[t] =
            started[t] - (IF spim_trx_is_in_transmission(t) THEN 1 ELSE 0)
       /\ spim_trx_is_in_transmission(t) =>
            /\ t = trx_queue_head
            /\ spim_trx_is_queued(t)
            /\ ~trx_ss[t]
       /\ ~spim_trx_is_in_transmission(t) => trx_ss[t]
       /\ ~spim_trx_is_queued(t) => t \notin Range(TrxQueue)
  /\ ~SpimBetweenTransfers =>
       trx_queue_head # NULL /\ spim_trx_is_in_transmission(trx_queue_head)

\* The master with its scheduling: process_execute keeps dispatching the
\* events queued for spim_trx_process, events keep being posted to it, and
\* a running inter-byte timer expires
SpimFairness ==
  /\ WF_vars(spim_trx_process)
  /\ WF_vars(spim_post_event)
  /\ WF_vars(trx_timer_expires)

\* The transfers of the runs checked for progress: the first is framed and
\* has no payload, the second is a simple transfer
SpimLiveInit ==
  /\ SpimInit
  /\ tx_size[1] = 0
  /\ trx_flags[2] = 0

SpimLiveSpec == SpimLiveInit /\ [][SpimNext]_vars /\ SpimFairness

\* The master with MaxPolled transfers accepted, for the loop that polls for
\* the response
spim_trx_queue_polled(t) == Accepted < MaxPolled /\ spim_trx_queue(t)

SpimPollNext ==
  \/ \E t \in Trxs : spim_trx_queue_polled(t)
  \/ spim_post_event
  \/ trx_timer_expires
  \/ spim_trx_process

SpimPollSpec == SpimLiveInit /\ [][SpimPollNext]_vars

\* C15: every transfer accepted by spim_trx_queue is eventually started, and
\* every started transfer is eventually terminated with a terminal event to
\* its owner.  A behaviour in which the thread has read through a null
\* trx_queue_head is not counted against the property, since the model does
\* not follow the program from there on.
C15_AcceptedIsServed ==
  \A t \in Trxs :
    /\ (t \in Range(order)) ~>
         (t \notin Range(order) \/ spimPt = "undefined")
    /\ (started[t] > terminated[t]) ~>
         \/ started[t] = terminated[t] /\ last_event[t] # "none"
         \/ spimPt = "undefined"

\* C16: spim_trx_queue returns ALREADY_QUEUED and leaves the queue as it is
\* exactly when the queued bit of the transfer is set, and otherwise appends
\* the transfer at the tail and sets the bit; a transfer is started when it
\* is the oldest accepted transfer that has not been started; and
\* spim_trx_is_queued is true exactly from the accepted call to the
\* termination, that is, while the transfer waits for its start or is in
\* transmission.
C16_QueuedInOrder ==
  [][/\ \A t \in Trxs :
          spim_trx_queue(t) =>
            IF spim_trx_is_queued(t)
              THEN /\ qret' = "SPIM_TRX_QUEUE_ALREADY_QUEUED"
                   /\ TrxQueue' = TrxQueue
                   /\ trx_flags' = trx_flags
              ELSE /\ qret' = "SPIM_TRX_QUEUE_OK"
                   /\ TrxQueue' = Append(TrxQueue, t)
                   /\ spim_trx_is_queued(t)'
     /\ \A t \in Trxs :
          started'[t] > started[t] => order # <<>> /\ Head(order) = t
     /\ \A t \in Trxs :
          spim_trx_is_queued(t)' <=>
            (t \in Range(order') \/ started'[t] > terminated'[t])]_vars

\* C17: a framed transfer whose slave keeps answering TYPE_RX_PROCESSING
\* gets one dummy byte and at most MAX_RX_DELAY more, and is then terminated
\* with ERR_NO_RESPONSE; the count of polls left is only decremented when it
\* is above 0, by one, and the bits above it in the byte stay as they are
\* (a termination in the same run clears the queued and in-transmission
\* bits, as end_transfer does).
C17_PollsBounded ==
  [][/\ polls' <= 1 + MAX_RX_DELAY
     /\ \A t \in Trxs :
          get_rx_delay_remaining(trx_flags'[t])
              # get_rx_delay_remaining(trx_flags[t]) =>
            /\ get_rx_delay_remaining(trx_flags[t]) > 0
            /\ get_rx_delay_remaining(trx_flags'[t])
                 = get_rx_delay_remaining(trx_flags[t]) - 1
            /\ trx_flags'[t] \div (RX_DELAY_REMAINING_MASK + 1)
                 = (IF terminated'[t] > terminated[t]
                      THEN ClearBit(ClearBit(trx_flags[t], TRX_QUEUED),
                                    TRX_IN_TRANSMISSION)
                      ELSE trx_flags[t]) \div (RX_DELAY_REMAINING_MASK + 1)
     /\ (/\ spimPt \in {"rx_wait", "rx_poll"}
         /\ polls' > polls
         /\ spimPt' # "undefined"
         /\ spdr' = TYPE_RX_PROCESSING) =>
          IF get_rx_delay_remaining(trx_flags'[trx_queue_head]) > 0
            THEN spimPt' = "rx_poll"
            ELSE /\ spimPt' = "yield"
                 /\ last_event'[trx_queue_head] = "SPIM_TRX_ERR_NO_RESPONSE"
                 /\ terminated'[trx_queue_head]
                      = terminated[trx_queue_head] + 1]_vars

\* A framed transfer was polled 1 + MAX_RX_DELAY times and was terminated
\* with ERR_NO_RESPONSE, its count of polls left at 0
C17_Witness ==
  \E t \in Trxs :
    /\ last_event[t] = "SPIM_TRX_ERR_NO_RESPONSE"
    /\ spimPt = "yield"
    /\ polls = 1 + MAX_RX_DELAY
    /\ trx_flags[t] = TRX_USE_LLP
    /\ started[t] = 1

\* ------------------------------------------------------------------------
\* Properties of the SPI slave
\* ------------------------------------------------------------------------

\* The CRC over the type, the size and the payload of the frame f
FrameCrc(f) == Crc16Of(Crc16Init, SubSeq(f, 1, 2 + f[2]))

\* The size byte of f is above the size of the receive buffer
FrameTooLarge(f) == Len(f) >= 2 /\ f[2] > SPIS_RX_BUF_SIZE

\* f is a whole frame whose two footer bytes are the CRC, high byte first
FrameGood(f) ==
  /\ Len(f) >= 2
  /\ f[2] <= SPIS_RX_BUF_SIZE
  /\ Len(f) = 4 + f[2]
  /\ f[3 + f[2]] = FrameCrc(f) \div Byte
  /\ f[4 + f[2]] = FrameCrc(f) % Byte

\* f ends with a footer byte that is not the byte of the CRC
FrameCrcMismatch(f) ==
  /\ Len(f) >= 2
  /\ f[2] <= SPIS_RX_BUF_SIZE
  /\ \/ Len(f) = 3 + f[2] /\ f[3 + f[2]] # FrameCrc(f) \div Byte
     \/ Len(f) = 4 + f[2] /\ f[4 + f[2]] # FrameCrc(f) % Byte

\* C20: for the bytes received from the state Ready on, the slave has posted
\* SPIS_MESSAGE_RECEIVED, once, exactly when they are type, size, payload
\* and two footer bytes with a size within SPIS_RX_BUF_SIZE and the footer
\* equal to the CRC over type, size and payload, and it enters
\* WAITING_FOR_CALLBACK in the step that posts; a size above the buffer ends
\* the transfer with MESSAGE_TOO_LARGE and a footer mismatch with
\* CRC_FAILURE, both with no event posted; rx_buf is never written at an
\* index of SPIS_RX_BUF_SIZE or above.
C20_ReceiveStateMachine ==
  /\ [](/\ ~overrun
        /\ Count(s_events, "SPIS_MESSAGE_RECEIVED")
             = (IF FrameGood(frame) THEN 1 ELSE 0)
        /\ status = "SPIS_TRX_WAITING_FOR_CALLBACK" =>
             /\ FrameGood(frame)
             /\ s_events = <<"SPIS_MESSAGE_RECEIVED">>
        /\ FrameTooLarge(frame) =>
             /\ s_events = <<>>
             /\ error_code_remaining = SPI_TYPE_ERR_MESSAGE_TOO_LARGE
             /\ status \in {"SPIS_TRX_WAITING_FOR_TRANSFER_TO_END",
                            "SPIS_TRX_READY"}
        /\ FrameCrcMismatch(frame) =>
             /\ s_events = <<>>
             /\ error_code_remaining = SPI_TYPE_ERR_CRC_FAILURE
             /\ status \in {"SPIS_TRX_WAITING_FOR_TRANSFER_TO_END",
                            "SPIS_TRX_READY"})
  /\ [][/\ (Count(s_events', "SPIS_MESSAGE_RECEIVED")
              > Count(s_events, "SPIS_MESSAGE_RECEIVED"))
             <=> (/\ status # "SPIS_TRX_WAITING_FOR_CALLBACK"
                  /\ status' = "SPIS_TRX_WAITING_FOR_CALLBACK")
        /\ (FrameTooLarge(frame') \/ FrameCrcMismatch(frame'))
             /\ frame' # frame =>
               /\ status' = "SPIS_TRX_WAITING_FOR_TRANSFER_TO_END"
               /\ s_spdr' = error_code_remaining']_vars

\* A frame with one payload byte and the right footer has been received:
\* the event is posted, the slave waits for the callback and the payload
\* byte is in rx_buf
C20_Witness ==
  /\ status = "SPIS_TRX_WAITING_FOR_CALLBACK"
  /\ Len(frame) = 5
  /\ FrameGood(frame)
  /\ s_rx_buf[0] = frame[3]
  /\ s_events = <<"SPIS_MESSAGE_RECEIVED">>

\* ------------------------------------------------------------------------
\* Properties of the master: the receive buffer
\* ------------------------------------------------------------------------

\* The capacity of the receive buffer the caller has supplied for t: rx_max
\* of spim_trx_set_llp, rx_size of spim_trx_set_simple
RxCapacity(t) == Len(rx_buf[t])

\* The thread is about to read the size byte of the response to transfer t
\* and is called with its timer expired
SizeByteIsRead(t) ==
  /\ spimPt = "rx_size"
  /\ trx_queue_head = t
  /\ spim_trx_is_in_transmission(t)
  /\ trx_timer
  /\ spim_events > 0
  /\ spim_events' < spim_events

\* The payload bytes are stored inside the buffer of the caller
StoredInsideBuffer ==
  (spimPt = "rx_payload" /\ trx_queue_head # NULL) =>
    rx_counter < RxCapacity(trx_queue_head)

\* C26: the master stores every payload byte of a response inside the receive
\* buffer of the caller, and when it reads the size byte of a response it
\* ends the transfer with ERR_RESPONSE_TOO_LARGE, before any payload byte is
\* stored, exactly when the size exceeds the capacity the caller gave,
\* however often the transfer structure has been queued before.
C26_SizeCheckedAgainstCapacity ==
  /\ []StoredInsideBuffer
  /\ [][\A t \in Trxs :
          SizeByteIsRead(t) =>
            /\ (/\ terminated'[t] > terminated[t]
                /\ last_event'[t] = "SPIM_TRX_ERR_RESPONSE_TOO_LARGE")
                 <=> spdr > RxCapacity(t)
            /\ spdr > RxCapacity(t) => rx_buf' = rx_buf]_vars

\* The half of the claim that is about the stores
PayloadStoredInsideBuffer == []StoredInsideBuffer

\* ------------------------------------------------------------------------
\* Properties of the clock
\* ------------------------------------------------------------------------

\* C23: once two reads of clock_get_time have returned, the wrapping
\* difference between the later and the earlier value equals the number of
\* timer ticks between the two reads of the hardware counter, whatever the
\* interleaving of the overflow and its interrupt with the reads and whether
\* or not the interrupts are masked; so the clock never goes backwards.
C23_ClockMonotonic ==
  (clkPc = "idle" /\ clk_reads >= 2) =>
    (clk_now - clk_prev) % ClockMod = clk_elapsed

\* ------------------------------------------------------------------------
\* Properties of the slave on its own: the slave select line and the reply
\* ------------------------------------------------------------------------

\* The states in which the callback has been told of a message and the
\* response has not been transmitted yet
SpisAwaitingOrSending ==
  {"SPIS_TRX_WAITING_FOR_CALLBACK", "SPIS_TRX_SEND_RESPONSE_SIZE",
   "SPIS_TRX_SEND_RESPONSE_PAYLOAD", "SPIS_TRX_SEND_FOOTER0",
   "SPIS_TRX_SEND_FOOTER1"}

\* The pin-change interrupt is served with the slave select line high
SpisRisingEdgeServed == ss_changed /\ ~ss_changed' /\ ss_pin

\* C21: when the pin-change interrupt is served for a rising edge of SS, the
\* slave posts SPIS_RESPONSE_ERROR exactly when its state is
\* WAITING_FOR_CALLBACK or a state of the response transmission before
\* COMPLETED, and posts nothing otherwise; afterwards the state is READY,
\* except that it is ABORTED_WHILE_WAITING_FOR_CALLBACK when it was
\* WAITING_FOR_CALLBACK or was ABORTED_WHILE_WAITING_FOR_CALLBACK already.
C21_RisingEdge ==
  [][SpisRisingEdgeServed =>
       /\ s_events' = IF status \in SpisAwaitingOrSending
                        THEN Append(s_events, "SPIS_RESPONSE_ERROR")
                        ELSE s_events
       /\ status' = IF status \in
                        {"SPIS_TRX_WAITING_FOR_CALLBACK",
                         "SPIS_TRX_ABORTED_WHILE_WAITING_FOR_CALLBACK"}
                      THEN "SPIS_TRX_ABORTED_WHILE_WAITING_FOR_CALLBACK"
                      ELSE "SPIS_TRX_READY"
       /\ ~transfer_in_progress']_vars

\* The master has raised SS while the slave was transmitting an accepted
\* response: the error is posted after the message and the slave is ready
C21_Witness ==
  /\ status = "SPIS_TRX_READY"
  /\ ss_pin /\ ~ss_changed
  /\ resp.ret = "SPIS_SEND_RESPONSE_OK"
  /\ s_events = <<"SPIS_MESSAGE_RECEIVED", "SPIS_RESPONSE_ERROR">>

\* What C22 says of the call spis_send_response(type, payload, size) made in
\* the state s0 with the state s after it
SendResponseAsSpecified(s0, s, type, payload, size) ==
  LET waiting == s0.status = "SPIS_TRX_WAITING_FOR_CALLBACK"
      valid == type < SPI_ERR_TYPE_MIN
      present == payload # NULL_PAYLOAD \/ size = 0
      parked == /\ s.status = "SPIS_TRX_WAITING_FOR_TRANSFER_TO_END"
                /\ s.err = SPI_TYPE_ERR_SLAVE_RESPONSE_INVALID
                /\ s.spdr = SPI_TYPE_ERR_SLAVE_RESPONSE_INVALID
      Kept(x) == [x EXCEPT !.spif = FALSE, !.resp = NoResponse]
  IN /\ s.resp.ret = "SPIS_SEND_RESPONSE_OK" <=> (waiting /\ valid /\ present)
     /\ (waiting /\ valid /\ present) =>
          /\ s.spdr = type
          /\ s.txb = (IF payload = NULL_PAYLOAD THEN <<>> ELSE payload)
          /\ s.txr = size
          /\ s.status = "SPIS_TRX_SEND_RESPONSE_SIZE"
     /\ (waiting /\ ~valid) =>
          s.resp.ret = "SPIS_SEND_RESPONSE_INVALID_TYPE" /\ parked
     /\ (waiting /\ valid /\ ~present) =>
          s.resp.ret = "SPIS_SEND_RESPONSE_PAYLOAD_IS_NULL" /\ parked
     /\ s0.status = "SPIS_TRX_ABORTED_WHILE_WAITING_FOR_CALLBACK" =>
          /\ s.resp.ret = "SPIS_SEND_RESPONSE_NO_TRX_IN_PROGRESS"
          /\ s.status = IF s0.tip THEN "SPIS_TRX_WAITING_FOR_TRANSFER_TO_END"
                        ELSE "SPIS_TRX_READY"
     /\ s0.status \notin {"SPIS_TRX_WAITING_FOR_CALLBACK",
                          "SPIS_TRX_ABORTED_WHILE_WAITING_FOR_CALLBACK"} =>
          /\ s.resp.ret = "SPIS_SEND_RESPONSE_NO_TRX_IN_PROGRESS"
          /\ Kept(s) = Kept(s0)

\* C22: in every reachable state of the slave and for every call the
\* callback can make, spis_send_response returns OK only in
\* WAITING_FOR_CALLBACK with a type below SPI_ERR_TYPE_MIN and a payload that
\* is not null or a size of 0, and then loads the type, sets tx_buf and
\* tx_remaining and moves to SEND_RESPONSE_SIZE; with an invalid type or a
\* null payload in WAITING_FOR_CALLBACK it returns the matching error and
\* parks the transfer with ERR_SLAVE_RESPONSE_INVALID; in
\* ABORTED_WHILE_WAITING_FOR_CALLBACK it returns NO_TRX_IN_PROGRESS and moves
\* to WAITING_FOR_TRANSFER_TO_END if a transfer is in progress and to READY
\* otherwise; in every other state it returns NO_TRX_IN_PROGRESS and leaves
\* the state and the fields of the transfer as they are.  transfer_in_progress
\* is the level of SS once the pin-change interrupt has been served.
C22_SendResponse ==
  /\ \A r \in SpisResponses :
       SendResponseAsSpecified(Slv, SpisSendResponse(Slv, r[1], r[2], r[3]),
                               r[1], r[2], r[3])
  /\ ~ss_changed => (transfer_in_progress <=> ~ss_pin)

\* The callback has answered a received message with one byte of payload:
\* the type is in the data register and the size is about to be sent
C22_Witness ==
  /\ resp.ret = "SPIS_SEND_RESPONSE_OK"
  /\ resp.size = 1
  /\ status = "SPIS_TRX_SEND_RESPONSE_SIZE"
  /\ s_spdr = RESPONSE_TYPE
  /\ s_tx_buf = ResponsePayload(1)
  /\ tx_remaining = 1

\* The states of the slave between a call of spis_send_response that
\* returned OK and the end of the transmission of the response
SpisSending ==
  {"SPIS_TRX_SEND_RESPONSE_SIZE", "SPIS_TRX_SEND_RESPONSE_PAYLOAD",
   "SPIS_TRX_SEND_FOOTER0", "SPIS_TRX_SEND_FOOTER1", "SPIS_TRX_COMPLETED"}

\* The step posts ev to the callback process and nothing else
SpisPosts(ev) == s_events' = Append(s_events, ev)

\* The step posts the outcome of a response
SpisPostsOutcome ==
  \/ SpisPosts("SPIS_RESPONSE_TRANSMITTED")
  \/ SpisPosts("SPIS_RESPONSE_ERROR")

\* C31: a response that spis_send_response has accepted ends with exactly
\* one of SPIS_RESPONSE_TRANSMITTED and SPIS_RESPONSE_ERROR.  The slave is
\* in one of the sending states from the accepted call on; the step that
\* takes it out of them, wherever the master releases SS, posts one of the
\* two events, and no step inside them posts anything.
C31_OneOutcomePerResponse ==
  [][(status \in SpisSending) =>
       IF status' \in SpisSending THEN s_events' = s_events
       ELSE SpisPostsOutcome]_vars

\* The received request as the callback process reads it
SpisRequest == <<s_rx_type, s_rx_size, s_rx_buf>>

\* The master exchanges a byte with the slave: it receives what the data
\* register of the slave holds
SpisByteExchanged == ~spif /\ spif'

\* C32: from the post of SPIS_MESSAGE_RECEIVED until the client calls
\* spis_send_response the request is not modified, also when the master
\* releases SS and starts new transfers.  In
\* ABORTED_WHILE_WAITING_FOR_CALLBACK every byte the master exchanges
\* returns ERR_SLAVE_NOT_READY, no event SPIS_MESSAGE_RECEIVED is posted,
\* and the state is left only by a call of spis_send_response, which
\* returns NO_TRX_IN_PROGRESS.
C32_RequestKeptUntilAnswered ==
  [][/\ (status \in {"SPIS_TRX_WAITING_FOR_CALLBACK",
                     "SPIS_TRX_ABORTED_WHILE_WAITING_FOR_CALLBACK"})
          => SpisRequest' = SpisRequest
     /\ (status = "SPIS_TRX_ABORTED_WHILE_WAITING_FOR_CALLBACK")
          => /\ SpisByteExchanged => s_spdr = SPI_TYPE_ERR_SLAVE_NOT_READY
             /\ ~SpisPosts("SPIS_MESSAGE_RECEIVED")
             /\ status' # status =>
                  /\ resp'.ret = "SPIS_SEND_RESPONSE_NO_TRX_IN_PROGRESS"
                  /\ ss_changed' = ss_changed
                  /\ status' = IF transfer_in_progress
                                 THEN "SPIS_TRX_WAITING_FOR_TRANSFER_TO_END"
                                 ELSE "SPIS_TRX_READY"]_vars

\* ------------------------------------------------------------------------
\* Properties of the master and the slave on one bus
\* ------------------------------------------------------------------------

\* The frame of a message: its type, its size and its payload
FrameOf(type, size, payload) == <<type, size>> \o payload

\* The two footer bytes of a frame, high byte first
FooterOf(f) ==
  <<Crc16Of(Crc16Init, f) \div Byte, Crc16Of(Crc16Init, f) % Byte>>

\* The request of the transfer t of the master
RequestOf(t) == FrameOf(tx_type[t], tx_size[t], tx_buf[t])

\* C18: on the bus, the bytes the master has sent when it turns to the
\* response are the request followed by the CRC-16 of type, size and
\* payload, high byte first; the footer bytes the slave loads after an
\* accepted response are the high and the low byte of the CRC-16 of the
\* response type, size and payload; and neither receiver finds a CRC
\* failure, as long as the master has sent nothing outside a transfer.
C18_FootersAreCrc ==
  /\ (spimPt = "rx_wait" /\ stray = 0) =>
       wire = RequestOf(trx_queue_head) \o FooterOf(RequestOf(trx_queue_head))
  /\ resp.ret = "SPIS_SEND_RESPONSE_OK" =>
       LET f == FooterOf(FrameOf(resp.type, resp.size, resp.payload))
       IN /\ status = "SPIS_TRX_SEND_FOOTER1" => s_spdr = f[1]
          /\ status = "SPIS_TRX_COMPLETED" => s_spdr = f[2]
  /\ stray = 0 =>
       /\ \A t \in Trxs : last_event[t] # "SPIM_TRX_ERR_RESPONSE_CRC_FAILURE"
       /\ error_code_remaining # SPI_TYPE_ERR_CRC_FAILURE

\* The half of C18 that is about the master
MasterFooterIsCrc ==
  (spimPt = "rx_wait" /\ stray = 0) =>
    wire = RequestOf(trx_queue_head) \o FooterOf(RequestOf(trx_queue_head))

\* C19: when the slave posts SPIS_MESSAGE_RECEIVED, its rx_type, rx_size and
\* rx_buf hold the request of the transfer the master has in transmission;
\* and a transfer for which spis_send_response has accepted a response that
\* fits the rx buffer of the master ends with
\* SPIM_TRX_COMPLETED_SUCCESSFULLY, with rx_type, rx_size and rx_buf equal to
\* the type, the size and the payload of the response.
C19_RoundTrip ==
  [][/\ (Count(s_events', "SPIS_MESSAGE_RECEIVED")
           > Count(s_events, "SPIS_MESSAGE_RECEIVED")) /\ stray = 0 =>
          /\ trx_queue_head # NULL
          /\ s_rx_type' = tx_type[trx_queue_head]
          /\ s_rx_size' = tx_size[trx_queue_head]
          /\ \A i \in 1 .. tx_size[trx_queue_head] :
               s_rx_buf'[i - 1] = tx_buf[trx_queue_head][i]
     /\ \A t \in Trxs :
          (/\ terminated'[t] > terminated[t]
           /\ stray' = 0
           /\ resp.ret = "SPIS_SEND_RESPONSE_OK"
           /\ resp.size <= rx_size[t]) =>
            /\ last_event'[t] = "SPIM_TRX_COMPLETED_SUCCESSFULLY"
            /\ rx_type'[t] = resp.type
            /\ rx_size'[t] = resp.size
            /\ \A i \in 1 .. resp.size : rx_buf'[t][i] = resp.payload[i]]_vars

\* The half of C19 that is about the request
RequestIsDelivered ==
  [][(Count(s_events', "SPIS_MESSAGE_RECEIVED")
        > Count(s_events, "SPIS_MESSAGE_RECEIVED")) /\ stray = 0 =>
       /\ trx_queue_head # NULL
       /\ s_rx_type' = tx_type[trx_queue_head]
       /\ s_rx_size' = tx_size[trx_queue_head]
       /\ \A i \in 1 .. tx_size[trx_queue_head] :
            s_rx_buf'[i - 1] = tx_buf[trx_queue_head][i]]_vars

=============================================================================
